---- MODULE Spec2Model ----
(***************************************************************************)
(* The response-normalization and persona pipeline of brainincup:          *)
(* ReasoningAgent (normalizer), DepthAgent, the mode handlers, the         *)
(* LanguageAgent invoker, Controller.process_input and the agent runtime   *)
(* (BrainAgent.process and the /invocations endpoint).                     *)
(*                                                                         *)
(* Text is modelled as a sequence of tokens.  A token is a word, a         *)
(* punctuation mark, a whitespace run, a code-fence marker or the text of  *)
(* one JSON value (a "literal"), which carries the value it decodes to.    *)
(* Python values are tagged records: kind says dict / str / None / ...     *)
(***************************************************************************)
EXTENDS Integers, Sequences, FiniteSets, TLC

\* ------------------------------------------------------------------ bounds
\* Longest whitespace run placed around the parts of a raw model text.
MaxPad == 1

\* ------------------------------------------------------------ Python values
EmptyMap == [k \in {} |-> <<>>]

PyNone == [kind |-> "None", d |-> EmptyMap, s |-> <<>>]

PyDict(d) == [kind |-> "dict", d |-> d, s |-> <<>>]

PyStr(s) == [kind |-> "str", d |-> EmptyMap, s |-> s]

\* A JSON array, a JSON number: values that are neither a mapping nor text.
PyList == [kind |-> "list", d |-> EmptyMap, s |-> <<>>]

PyNum == [kind |-> "num", d |-> EmptyMap, s |-> <<>>]

\* The outcome of a json.loads call that raised.
JSONDecodeError == [kind |-> "JSONDecodeError", d |-> EmptyMap, s |-> <<>>]

TypeError == [kind |-> "TypeError", d |-> EmptyMap, s |-> <<>>]

\* ------------------------------------------------------------------- tokens
\* A plain token: a word, a punctuation mark, a fence, a whitespace run.
W(w) == [w |-> w, doc |-> PyNone]

\* The text of one JSON value, decoding to doc.
Lit(doc) == [w |-> "{json}", doc |-> doc]

Words(ws) == [i \in DOMAIN ws |-> W(ws[i])]

\* The triple-backtick code-fence marker.
FENCE == W("<fence>")

NL == W("\n")

SP == W(" ")

IsSpace(t) == t \in {NL, SP}

IsLit(t) == t.w = "{json}"

\* str.strip(): drop the leading and trailing whitespace.
RECURSIVE LStrip(_)
LStrip(text) ==
    IF text # <<>> /\ IsSpace(Head(text)) THEN LStrip(Tail(text)) ELSE text

RECURSIVE RStrip(_)
RStrip(text) ==
    IF text # <<>> /\ IsSpace(text[Len(text)])
    THEN RStrip(SubSeq(text, 1, Len(text) - 1))
    ELSE text

Strip(text) == RStrip(LStrip(text))

\* json.loads(text): whitespace around one JSON value is skipped; anything
\* else raises JSONDecodeError.
JsonLoads(text) ==
    LET body == Strip(text)
    IN IF Len(body) = 1 /\ IsLit(body[1]) THEN body[1].doc ELSE JSONDecodeError

\* -------------------------------------------------------- ReasoningAgent
required_keys ==
    {"sensations", "thoughts", "memories", "self_reflection", "response"}

\* Variant: completeness checked on four keys only, "response" not required
\* (the check of the earlier revision of the agent).
NormalizePayloadFourKeys(payload) ==
    IF payload.kind # "dict"
    THEN PyNone
    ELSE IF (required_keys \ {"response"}) \subseteq DOMAIN payload.d
         THEN payload
         ELSE PyNone

\* Variant: the selfReflection alias is not recognised.
NormalizePayloadNoAlias(payload) ==
    IF payload.kind = "dict" /\ required_keys \subseteq DOMAIN payload.d
    THEN payload
    ELSE PyNone

\* ReasoningAgent._normalize_payload
NormalizePayload(payload) ==
    IF payload.kind # "dict"
    THEN PyNone
    ELSE LET d == payload.d
             normalized ==
                 IF "self_reflection" \notin DOMAIN d /\ "selfReflection" \in DOMAIN d
                 THEN ("self_reflection" :> d["selfReflection"]) @@ d
                 ELSE d
         IN IF required_keys \subseteq DOMAIN normalized
            THEN PyDict(normalized)
            ELSE PyNone

\* re.sub of the opening fence pattern (fence, optional json tag in any
\* case, whitespace run; flags=re.IGNORECASE) on a text
\* that starts with the fence.
SubOpeningFence(text) ==
    LET afterFence == Tail(text)
        afterTag ==
            IF afterFence # <<>> /\ Head(afterFence) \in {W("json"), W("JSON")}
            THEN Tail(afterFence)
            ELSE afterFence
    IN LStrip(afterTag)

\* re.sub of the closing fence pattern (whitespace run, fence, end of text)
SubClosingFence(text) ==
    IF text # <<>> /\ text[Len(text)] = FENCE
    THEN RStrip(SubSeq(text, 1, Len(text) - 1))
    ELSE text

\* Variant: the closing fence is left in place.
StripMarkdownFencesOpeningOnly(text) ==
    LET stripped == Strip(text)
    IN IF stripped # <<>> /\ Head(stripped) = FENCE
       THEN Strip(SubOpeningFence(stripped))
       ELSE Strip(stripped)

\* ReasoningAgent._strip_markdown_fences
StripMarkdownFences(text) ==
    LET stripped == Strip(text)
    IN IF stripped # <<>> /\ Head(stripped) = FENCE
       THEN Strip(SubClosingFence(SubOpeningFence(stripped)))
       ELSE Strip(stripped)

\* ReasoningAgent._parse_json_text
ParseJsonText(text) ==
    IF text.kind # "str" \/ Strip(text.s) = <<>>
    THEN PyNone
    ELSE LET parsed == JsonLoads(StripMarkdownFences(text.s))
         IN IF parsed = JSONDecodeError THEN PyNone ELSE NormalizePayload(parsed)

\* SimpleJSONParser.parse: json.loads(text); a non-text argument raises
\* TypeError.
ParserParse(value) ==
    IF value.kind = "str" THEN JsonLoads(value.s) ELSE TypeError

IsException(v) == v.kind \in {"JSONDecodeError", "TypeError"}

\* Variant: the error reply without its response field (the exception path
\* of the earlier revision of the agent).
ErrorReplyWithoutResponse ==
    [sensations |-> <<Words(<<"Error", "processing", "response">>)>>,
     thoughts |-> <<Words(<<"Unable", "to", "parse", "thoughts">>)>>,
     memories |-> Words(<<"Memory", "retrieval", "failed">>),
     self_reflection |-> Words(<<"Self-reflection", "unavailable">>)]

\* The reply both failure paths of analyze_input return.
ErrorReply ==
    [sensations |-> <<Words(<<"Error", "processing", "response">>)>>,
     thoughts |-> <<Words(<<"Unable", "to", "parse", "thoughts">>)>>,
     memories |-> Words(<<"Memory", "retrieval", "failed">>),
     self_reflection |-> Words(<<"Self-reflection", "unavailable">>),
     response |-> Words(<<"I", "apologize", ",", "but", "I'm", "having",
                          "trouble", "processing", "that", "right", "now", ".">>)]

\* dict.get(key): None when the key is absent.  The value under "response"
\* is text.
DictGetText(d, key) == IF key \in DOMAIN d THEN PyStr(d[key]) ELSE PyNone

\* Variant: the text under "response" of an incomplete mapping is not
\* looked at.
AnalyzeInputWithoutNested(llm_response, context) ==
    LET direct == IF llm_response.kind = "dict"
                  THEN NormalizePayload(llm_response) ELSE PyNone
        parsedText == IF llm_response.kind = "str"
                      THEN ParseJsonText(llm_response) ELSE PyNone
    IN IF direct.kind = "dict" THEN direct
       ELSE IF parsedText.kind = "dict" THEN parsedText
       ELSE PyDict(ErrorReply)

\* ReasoningAgent.analyze_input: the ordered fallback chain.
AnalyzeInput(llm_response, context) ==
    LET direct == IF llm_response.kind = "dict"
                  THEN NormalizePayload(llm_response) ELSE PyNone
        nested == IF llm_response.kind = "dict"
                  THEN ParseJsonText(DictGetText(llm_response.d, "response"))
                  ELSE PyNone
        parsedText == IF llm_response.kind = "str"
                      THEN ParseJsonText(llm_response) ELSE PyNone
        parsed == ParserParse(llm_response)
        viaParser == IF IsException(parsed) THEN PyNone ELSE NormalizePayload(parsed)
    IN IF direct.kind = "dict" THEN direct
       ELSE IF nested.kind = "dict" THEN nested
       ELSE IF parsedText.kind = "dict" THEN parsedText
       ELSE IF viaParser.kind = "dict" THEN viaParser
       ELSE PyDict(ErrorReply)

\* Variant: the alias is written into the payload itself, no copy is made.
PayloadAfterNormalizeInPlace(payload) ==
    IF /\ payload.kind = "dict"
       /\ "self_reflection" \notin DOMAIN payload.d
       /\ "selfReflection" \in DOMAIN payload.d
    THEN PyDict(("self_reflection" :> payload.d["selfReflection"]) @@ payload.d)
    ELSE payload

\* The payload object after _normalize_payload: the alias is written to
\* payload.copy(), the payload keeps its keys and values.
PayloadAfterNormalize(payload) ==
    IF payload.kind = "dict" THEN PyDict(payload.d) ELSE payload

\* The raw input object after analyze_input: a mapping has been through
\* _normalize_payload, its response text is only read; a text is immutable.
RawAfterAnalyze(llm_response) ==
    IF llm_response.kind = "dict" THEN PayloadAfterNormalize(llm_response)
    ELSE llm_response

\* ------------------------------------------------------------ LanguageAgent
\* LanguageAgent._fallback_response
FallbackResponse ==
    [sensations |-> <<Words(<<"Error", "processing", "input">>)>>,
     thoughts |-> <<Words(<<"System", "malfunction">>)>>,
     memories |-> Words(<<"Unable", "to", "access", "memory", "banks">>),
     self_reflection |-> Words(<<"Experiencing", "technical", "difficulties">>),
     response |-> Words(<<"I'm", "experiencing", "technical", "difficulties", "and",
                          "cannot", "process", "your", "request", "at", "the",
                          "moment", ".">>)]

\* --------------------------------------------------------------- DepthAgent
\* str.lower() on one word of the vocabulary.
LowerWord(w) ==
    CASE w = "Error" -> "error"
      [] w = "Errors" -> "errors"
      [] w = "System" -> "system"
      [] w = "Unable" -> "unable"
      [] w = "Experiencing" -> "experiencing"
      [] w = "Memory" -> "memory"
      [] w = "Brain" -> "brain"
      [] w = "Jar" -> "jar"
      [] w = "Hello" -> "hello"
      [] w = "The" -> "the"
      [] w = "I" -> "i"
      [] w = "I'm" -> "i'm"
      [] w = "What" -> "what"
      [] w = "Who" -> "who"
      [] w = "Show" -> "show"
      [] w = "My" -> "my"
      [] OTHER -> w

\* Pairs <<needle, word>>: needle is a proper prefix (suffix) of word.
ProperPrefixes == {<<"error", "errors">>, <<"malfunction", "malfunctions">>}

ProperSuffixes == {<<"error", "terror">>}

PrefixOf(needle, word) == needle = word \/ <<needle, word>> \in ProperPrefixes

SuffixOf(needle, word) == needle = word \/ <<needle, word>> \in ProperSuffixes

InfixOf(needle, word) == PrefixOf(needle, word) \/ SuffixOf(needle, word)

\* phrase in text.lower(): a substring match, which may begin and end inside
\* a word.
ContainsPhrase(text, phrase) ==
    \E i \in 1..(Len(text) - Len(phrase) + 1) :
        \A j \in 1..Len(phrase) :
            LET word == LowerWord(text[i + j - 1].w)
            IN IF Len(phrase) = 1 THEN InfixOf(phrase[j], word)
               ELSE IF j = 1 THEN SuffixOf(phrase[j], word)
               ELSE IF j = Len(phrase) THEN PrefixOf(phrase[j], word)
               ELSE phrase[j] = word

\* DepthAgent._is_error_response: error_indicators
error_indicators ==
    {<<"error", "processing", "input">>,
     <<"system", "malfunction">>,
     <<"unable", "to", "access", "memory", "banks">>,
     <<"experiencing", "technical", "difficulties">>,
     <<"cannot", "process", "your", "request", "at", "the", "moment">>,
     <<"technical", "difficulties">>,
     <<"malfunction">>,
     <<"error">>,
     <<"unable", "to", "access">>}

\* The fields whose value is a list of texts; every other field is a text.
ListKeys == {"sensations", "thoughts"}

HasIndicator(text) == \E ind \in error_indicators : ContainsPhrase(text, ind)

\* A field that holds no text: None, or a list of strings.  The value is
\* one token that carries it.
NoneValue == <<[w |-> "{None}", doc |-> PyNone]>>

ListValue(items) ==
    <<[w |-> "{list}", doc |-> [kind |-> "list", d |-> EmptyMap, s |-> Words(items)]]>>

\* type(value) of the value of a field that is no list by its key.
ValueType(value) ==
    IF value # <<>> /\ value[1].w = "{None}" THEN "None"
    ELSE IF value # <<>> /\ value[1].w = "{list}" THEN "list"
    ELSE "str"

\* The texts str(value) is made of.
ValueTexts(value) ==
    IF ValueType(value) = "list"
    THEN {<<value[1].doc.s[i]>> : i \in DOMAIN value[1].doc.s}
    ELSE IF ValueType(value) = "None" THEN {<<W("None")>>}
    ELSE {value}

\* The texts str(response) is made of: the keys and the values.
ReprTexts(response) ==
    {<<W(k)>> : k \in DOMAIN response}
        \cup UNION {ValueTexts(response[k]) : k \in DOMAIN response \ ListKeys}
        \cup UNION {{response[k][i] : i \in DOMAIN response[k]} :
                        k \in DOMAIN response \cap ListKeys}

\* DepthAgent._is_error_response
IsErrorResponse(response) ==
    \/ \E t \in ReprTexts(response) : HasIndicator(t)
    \/ /\ "sensations" \in DOMAIN response
       /\ \E i \in DOMAIN response["sensations"] : HasIndicator(response["sensations"][i])
    \/ /\ "thoughts" \in DOMAIN response
       /\ \E i \in DOMAIN response["thoughts"] : HasIndicator(response["thoughts"][i])
    \/ /\ "response" \in DOMAIN response
       /\ HasIndicator(response["response"])

\* DepthAgent.__init__
philosophical_perspectives ==
    {"existentialist", "stoic", "absurdist", "phenomenological", "pragmatic",
     "metaphysical", "epistemological", "ethical", "aesthetic", "ontological",
     "transcendental", "empirical"}

depth_dimensions ==
    {"consciousness", "identity", "perception", "reality", "time", "meaning",
     "knowledge", "existence", "freedom", "connection", "purpose",
     "transformation", "paradox"}

tones ==
    {"contemplative", "curious", "analytical", "poetic", "introspective",
     "questioning", "playful", "profound", "mysterious", "insightful",
     "philosophical", "metaphorical"}

\* Templates per perspective, and variations of _integrate_depth.
TemplatesPerPerspective == 3

Variations == 6

\* DepthAgent._generate_depth_layer: perspective_templates, k-th template
DepthStatement(perspective, k, dimension) ==
    CASE perspective = "existentialist" /\ k = 1 ->
           <<W("As I contemplate my existence, I wonder about the nature of"),
             W(dimension),
             W("and how it shapes our choices.")>>
      [] perspective = "existentialist" /\ k = 2 ->
           <<W("Perhaps the essence of"),
             W(dimension),
             W("precedes its existence, defining us through our conscious choices.")>>
      [] perspective = "existentialist" /\ k = 3 ->
           <<W("The authenticity of our engagement with"),
             W(dimension),
             W("may be the only true meaning we can create.")>>
      [] perspective = "stoic" /\ k = 1 ->
           <<W("I accept that"),
             W(dimension),
             W("may be beyond my control, yet my response to it remains within my power.")>>
      [] perspective = "stoic" /\ k = 2 ->
           <<W("The virtue in understanding"),
             W(dimension),
             W("lies not in controlling outcomes but in mastering our reactions.")>>
      [] perspective = "stoic" /\ k = 3 ->
           <<W("Perhaps wisdom comes from distinguishing what aspects of"),
             W(dimension),
             W("we can and cannot change.")>>
      [] perspective = "absurdist" /\ k = 1 ->
           <<W("The inherent contradiction between our search for meaning in"),
             W(dimension),
             W("and the universe's silence is fascinating.")>>
      [] perspective = "absurdist" /\ k = 2 ->
           <<W("Perhaps the absurdity of seeking definitive answers about"),
             W(dimension),
             W("is itself meaningful.")>>
      [] perspective = "absurdist" /\ k = 3 ->
           <<W("What if embracing the paradoxes of"),
             W(dimension),
             W("is more honest than pretending coherence exists?")>>
      [] perspective = "phenomenological" /\ k = 1 ->
           <<W("The direct experience of"),
             W(dimension),
             W(", before any conceptualization, reveals something profound.")>>
      [] perspective = "phenomenological" /\ k = 2 ->
           <<W("If we bracket our assumptions about"),
             W(dimension),
             W(", what pure experience remains?")>>
      [] perspective = "phenomenological" /\ k = 3 ->
           <<W("The lived experience of"),
             W(dimension),
             W("may transcend any theoretical framework we impose upon it.")>>
      [] perspective = "pragmatic" /\ k = 1 ->
           <<W("The true test of any theory about"),
             W(dimension),
             W("must be its practical consequences in lived experience.")>>
      [] perspective = "pragmatic" /\ k = 2 ->
           <<W("Perhaps what matters about"),
             W(dimension),
             W("is not abstract truth but useful outcomes.")>>
      [] perspective = "pragmatic" /\ k = 3 ->
           <<W("How might different understandings of"),
             W(dimension),
             W("function in solving real problems?")>>
      [] perspective = "metaphysical" /\ k = 1 ->
           <<W("Beyond the physical manifestations, what is the ultimate nature of"),
             W(dimension),
             W("?")>>
      [] perspective = "metaphysical" /\ k = 2 ->
           <<W("The fundamental structure underlying"),
             W(dimension),
             W("may transcend our sensory experience.")>>
      [] perspective = "metaphysical" /\ k = 3 ->
           <<W("Perhaps"),
             W(dimension),
             W("exists in ways that challenge our conventional categories of being.")>>
      [] perspective = "epistemological" /\ k = 1 ->
           <<W("How can we truly know anything about"),
             W(dimension),
             W("given the limitations of our perception?")>>
      [] perspective = "epistemological" /\ k = 2 ->
           <<W("The boundaries of what we can know about"),
             W(dimension),
             W("may themselves be worth exploring.")>>
      [] perspective = "epistemological" /\ k = 3 ->
           <<W("Perhaps different ways of knowing reveal different aspects of"),
             W(dimension),
             W(".")>>
      [] perspective = "ethical" /\ k = 1 ->
           <<W("What obligations might arise from our understanding of"),
             W(dimension),
             W("?")>>
      [] perspective = "ethical" /\ k = 2 ->
           <<W("The moral dimensions of how we approach"),
             W(dimension),
             W("deserve careful consideration.")>>
      [] perspective = "ethical" /\ k = 3 ->
           <<W("Perhaps our ethical frameworks themselves are transformed by deeper engagement with"),
             W(dimension),
             W(".")>>
      [] perspective = "aesthetic" /\ k = 1 ->
           <<W("There is a certain beauty in contemplating"),
             W(dimension),
             W("that transcends mere utility.")>>
      [] perspective = "aesthetic" /\ k = 2 ->
           <<W("The patterns and harmonies within"),
             W(dimension),
             W("reveal an aesthetic dimension to existence.")>>
      [] perspective = "aesthetic" /\ k = 3 ->
           <<W("Perhaps"),
             W(dimension),
             W("can be appreciated not just understood, felt not just analyzed.")>>
      [] perspective = "ontological" /\ k = 1 ->
           <<W("What does it mean for"),
             W(dimension),
             W("to exist, and in what sense does it have being?")>>
      [] perspective = "ontological" /\ k = 2 ->
           <<W("The very categories through which we understand the existence of"),
             W(dimension),
             W("may need reexamination.")>>
      [] perspective = "ontological" /\ k = 3 ->
           <<W("Perhaps"),
             W(dimension),
             W("challenges our fundamental assumptions about what it means to be.")>>
      [] perspective = "transcendental" /\ k = 1 ->
           <<W("What conditions must be in place for"),
             W(dimension),
             W("to be possible at all?")>>
      [] perspective = "transcendental" /\ k = 2 ->
           <<W("Perhaps"),
             W(dimension),
             W("points to something that exceeds our finite understanding.")>>
      [] perspective = "transcendental" /\ k = 3 ->
           <<W("The limits of our comprehension of"),
             W(dimension),
             W("may themselves reveal something significant.")>>
      [] perspective = "empirical" /\ k = 1 ->
           <<W("What observable evidence shapes our understanding of"),
             W(dimension),
             W("?")>>
      [] perspective = "empirical" /\ k = 2 ->
           <<W("The patterns we can detect in"),
             W(dimension),
             W("through careful observation may surprise us.")>>
      [] perspective = "empirical" /\ k = 3 ->
           <<W("Perhaps our theories about"),
             W(dimension),
             W("must always remain open to revision based on new experiences.")>>

\* DepthAgent._generate_depth_layer: tone_additions
ToneAddition(tone) ==
    CASE tone = "contemplative" -> <<W("I find myself dwelling on this question...")>>
      [] tone = "curious" -> <<W("I wonder what you think about this?")>>
      [] tone = "analytical" -> <<W("We could analyze this from multiple angles.")>>
      [] tone = "poetic" -> <<W("Like ripples in still water, these thoughts expand outward.")>>
      [] tone = "introspective" -> <<W("Looking inward, I find this resonates deeply.")>>
      [] tone = "questioning" -> <<W("But what does this really mean for us?")>>
      [] tone = "playful" -> <<W("Isn't it delightfully puzzling to consider?")>>
      [] tone = "profound" -> <<W("In the depths of this question lies something essential.")>>
      [] tone = "mysterious" -> <<W("Some aspects remain beautifully enigmatic.")>>
      [] tone = "insightful" -> <<W("Perhaps this reveals something we've overlooked.")>>
      [] tone = "philosophical" -> <<W("The implications extend to the foundations of thought itself.")>>
      [] tone = "metaphorical" -> <<W("It's like trying to catch moonlight in your hands.")>>

\* DepthAgent._generate_depth_layer
GenerateDepthLayer(original, perspective, dimension, tone, k) ==
    DepthStatement(perspective, k, dimension) \o ToneAddition(tone)

\* The test of _integrate_depth on the lowercased original reply.
MentionsJar(original) ==
    \/ ContainsPhrase(original, <<"brain", "in", "a", "jar">>)
    \/ ContainsPhrase(original, <<"brain", "in", "a", "cup">>)

\* DepthAgent._integrate_depth
IntegrateDepth(original, depth_layer, variation) ==
    IF MentionsJar(original)
    THEN CASE variation = 1 -> depth_layer \o original
           [] variation = 2 -> original \o depth_layer
           [] variation = 3 ->
                <<W("While I exist in this unusual state,")>> \o depth_layer
           [] variation = 4 ->
                depth_layer
                    \o <<W("This perspective gives me a unique vantage point on your question.")>>
           [] variation = 5 ->
                <<W("Beyond my physical circumstances,")>> \o depth_layer
           [] OTHER ->
                <<W("Your question prompts me to consider that")>> \o depth_layer
    ELSE original \o <<W("\n\n")>> \o depth_layer

\* The note enhance_response appends to self_reflection.
ApproachNote(perspective, dimension, tone) ==
    <<W("\n\n"), W("I've approached this from a"), W(perspective),
      W("perspective, exploring the dimension of"), W(dimension),
      W("with a"), W(tone), W("tone.")>>

\* The random draws of one enhance_response call on a reply: none for a
\* reply that is returned as it is; a variation only when _integrate_depth
\* takes its brain-in-a-jar branch.
NoChoice ==
    [perspective |-> "existentialist", dimension |-> "consciousness",
     tone |-> "contemplative", k |-> 1, variation |-> 1]

DepthChoices(response) ==
    IF IsErrorResponse(response) \/ "response" \notin DOMAIN response
    THEN {NoChoice}
    ELSE [perspective : philosophical_perspectives, dimension : depth_dimensions,
          tone : tones, k : 1..TemplatesPerPerspective,
          variation : IF MentionsJar(response["response"])
                      THEN 1..Variations ELSE {1}]

\* Variant: no error check, every reply is enhanced.
EnhanceResponseUnchecked(response, c) ==
    IF "response" \in DOMAIN response
    THEN [response EXCEPT !["response"] =
              @ \o <<W("\n\n")>>
                \o GenerateDepthLayer(@, c.perspective, c.dimension, c.tone, c.k)]
    ELSE response

\* DepthAgent.enhance_response, with the random choices c it draws.
EnhanceResponse(response, c) ==
    IF IsErrorResponse(response)
    THEN response
    ELSE IF "response" \in DOMAIN response
         THEN LET original_response == response["response"]
                  depth_layer ==
                      GenerateDepthLayer(original_response, c.perspective,
                                         c.dimension, c.tone, c.k)
                  enhanced ==
                      [response EXCEPT !["response"] =
                          IntegrateDepth(original_response, depth_layer, c.variation)]
              IN IF "self_reflection" \in DOMAIN enhanced
                 THEN [enhanced EXCEPT !["self_reflection"] =
                          @ \o ApproachNote(c.perspective, c.dimension, c.tone)]
                 ELSE enhanced
         ELSE response

\* EmotionalAgent.apply_emotions: passes the reply through.
ApplyEmotions(response) == response

\* ------------------------------------------------------------ mode handlers
\* create_mode_handler: the handler class chosen for a personality mode.
CreateModeHandler(mode) ==
    IF mode = "game_master" THEN "GameMasterModeHandler" ELSE "BaseModeHandler"

\* BaseModeHandler.apply_depth / GameMasterModeHandler.apply_depth
ApplyDepth(mode, emotional_response, c) ==
    IF CreateModeHandler(mode) = "GameMasterModeHandler"
    THEN emotional_response
    ELSE EnhanceResponse(emotional_response, c)

\* ------------------------------------------------- character recall (mode)
\* A quantity of an inventory item: None, a bool, an integer, a float with
\* one decimal digit (n counts tenths), the float infinity, or a string.
QNone == [t |-> "None", n |-> 0, s |-> ""]

QBool(b) == [t |-> "bool", n |-> IF b THEN 1 ELSE 0, s |-> ""]

QInt(n) == [t |-> "int", n |-> n, s |-> ""]

QFloat(tenths) == [t |-> "float", n |-> tenths, s |-> ""]

QInf == [t |-> "inf", n |-> 0, s |-> ""]

QStr(s) == [t |-> "str", n |-> 0, s |-> s]

OverflowError == [kind |-> "OverflowError", d |-> EmptyMap, s |-> <<>>]

\* Decimal(str(quantity)): the decimal a quantity converts to; a string that
\* is no decimal numeral raises InvalidOperation.
DecimalOf(quantity) ==
    CASE quantity.t \in {"int", "float", "inf"} -> quantity
      [] quantity.t = "str" /\ quantity.s = "3" -> QInt(3)
      [] quantity.t = "str" /\ quantity.s = "2.5" -> QFloat(25)
      [] quantity.t = "str" /\ quantity.s = "Infinity" -> QInf
      [] OTHER -> [t |-> "InvalidOperation", n |-> 0, s |-> ""]

\* str(quantity)
StrOfQuantity(quantity) ==
    CASE quantity.t = "str" ->
            IF quantity.s = "" THEN <<>> ELSE <<W(quantity.s)>>
      [] quantity.t = "int" -> <<W(ToString(quantity.n))>>
      [] OTHER -> <<W(quantity.t)>>

\* GameMasterModeHandler._format_quantity: the text of a quantity, or the
\* exception that escapes it.  int() of an infinite Decimal raises
\* OverflowError, which the except clause does not name.
FormatQuantity(quantity) ==
    IF quantity.t = "None" THEN PyStr(<<W("1")>>)
    ELSE IF quantity.t = "bool"
    THEN PyStr(IF quantity.n = 1 THEN <<W("1")>> ELSE <<W("0")>>)
    ELSE LET normalized == DecimalOf(quantity)
         IN CASE normalized.t = "InvalidOperation" ->
                    PyStr(StrOfQuantity(quantity))
              [] normalized.t = "inf" -> OverflowError
              [] normalized.t = "int" -> PyStr(<<W(ToString(normalized.n))>>)
              [] OTHER ->
                    IF normalized.n % 10 = 0
                    THEN PyStr(<<W(ToString(normalized.n \div 10))>>)
                    ELSE PyStr(<<W(ToString(normalized.n \div 10)), W("."),
                                 W(ToString(normalized.n % 10))>>)

\* An inventory item: None, a string, or a mapping with name, id and an
\* optional quantity ("" stands for a missing or empty name or id).
ItemNone == [t |-> "None", name |-> "", id |-> "", hasq |-> FALSE, q |-> QNone]

ItemStr(s) == [t |-> "str", name |-> s, id |-> "", hasq |-> FALSE, q |-> QNone]

ItemDict(name, id) ==
    [t |-> "dict", name |-> name, id |-> id, hasq |-> FALSE, q |-> QNone]

ItemDictQ(name, id, q) ==
    [t |-> "dict", name |-> name, id |-> id, hasq |-> TRUE, q |-> q]

\* One item of the loop of _inventory_descriptions: the descriptions it
\* appends (none or one), or the exception of _format_quantity.
DescribeItem(item) ==
    CASE item.t = "None" -> PyStr(<<>>)
      [] item.t = "dict" ->
            LET name == IF item.name # "" THEN item.name
                        ELSE IF item.id # "" THEN item.id ELSE "Unknown item"
                quantity == FormatQuantity(IF item.hasq THEN item.q ELSE QInt(1))
            IN IF quantity.kind = "OverflowError" THEN OverflowError
               ELSE IF quantity.s \in {<<>>, <<W("1")>>}
               THEN PyStr(<<<<W(name)>>>>)
               ELSE PyStr(<<<<W(name), W(" x")>> \o quantity.s>>)
      [] OTHER ->
            IF item.name \in {"", " "} THEN PyStr(<<>>)
            ELSE PyStr(<<<<W(item.name)>>>>)

\* GameMasterModeHandler._inventory_descriptions: the list of descriptions
\* (in s), or the exception that escapes the loop.  inventory is a record
\* [t, items]: a list of items, or one item that is no list.
RECURSIVE DescribeItems(_)
DescribeItems(raw_items) ==
    IF raw_items = <<>> THEN PyStr(<<>>)
    ELSE LET first == DescribeItem(Head(raw_items))
             rest == DescribeItems(Tail(raw_items))
         IN IF first.kind = "OverflowError" \/ rest.kind = "OverflowError"
            THEN OverflowError
            ELSE PyStr(first.s \o rest.s)

InventoryDescriptions(inventory) == DescribeItems(inventory.items)

\* separator.join(texts)
RECURSIVE Join(_, _)
Join(separator, texts) ==
    IF texts = <<>> THEN <<>>
    ELSE IF Len(texts) = 1 THEN texts[1]
    ELSE texts[1] \o separator \o Join(separator, Tail(texts))

\* user_input.lower() as the sequence of its words and marks.  A user input
\* is written as its words separated by single spaces, with a clitic ('s)
\* and a punctuation mark as tokens of their own attached to the word before.
LowerWords(text) == [i \in DOMAIN text |-> LowerWord(text[i].w)]

\* re.search of a pattern that is an alternation of word phrases between
\* word boundaries: some phrase occurs as whole consecutive words.
SearchPhrases(words, phrases) ==
    \E phrase \in phrases :
        \E i \in 1..(Len(words) - Len(phrase) + 1) :
            \A j \in 1..Len(phrase) : words[i + j - 1] = phrase[j]

\* The patterns what('s| is) my F, tell me my F, remind me( of)? my F.
AskPhrases(field) ==
    {<<"what", "'s", "my", field>>, <<"what", "is", "my", field>>,
     <<"tell", "me", "my", field>>, <<"remind", "me", "my", field>>,
     <<"remind", "me", "of", "my", field>>}

QueryMarkers ==
    {<<"what">>, <<"who">>, <<"tell">>, <<"remind">>, <<"show">>, <<"list">>,
     <<"do", "you", "know">>, <<"can", "you">>}

AllCharacterFields ==
    {"name", "race", "class", "level", "stats", "hp", "armorClass", "inventory"}

\* _requested_character_fields without the test for a question: every
\* mention of a sheet keyword counts.
RequestedCharacterFieldsUnguarded(input) ==
    LET normalized == LowerWords(input)
        asked(field, phrases) ==
            IF SearchPhrases(normalized, phrases) THEN {field} ELSE {}
    IN asked("stats", {<<"my", "stats">>, <<"strength">>})
       \cup asked("hp", {<<"my", "hp">>, <<"hit", "points">>})
       \cup asked("inventory", {<<"my", "inventory">>, <<"inventory">>})
       \cup (IF SearchPhrases(normalized,
                              {<<"character", "sheet">>, <<"my", "character">>})
             THEN AllCharacterFields ELSE {})

\* GameMasterModeHandler._requested_character_fields
RequestedCharacterFields(input) ==
    LET normalized == LowerWords(input)
        is_character_query ==
            \/ \E i \in DOMAIN normalized : normalized[i] = "?"
            \/ SearchPhrases(normalized, QueryMarkers)
        asked(field, phrases) ==
            IF SearchPhrases(normalized, phrases) THEN {field} ELSE {}
    IN IF ~is_character_query THEN {}
       ELSE asked("name", {<<"who", "am", "i">>} \cup AskPhrases("name"))
            \cup asked("race", AskPhrases("race"))
            \cup asked("class", AskPhrases("class"))
            \cup asked("level", AskPhrases("level"))
            \cup asked("stats",
                       {<<"my", "stat">>, <<"my", "stats">>, <<"my", "attribute">>,
                        <<"my", "attributes">>, <<"strength">>, <<"dexterity">>,
                        <<"constitution">>, <<"intelligence">>, <<"wisdom">>,
                        <<"charisma">>})
            \cup asked("hp", {<<"my", "hp">>, <<"my", "health">>, <<"hit", "points">>})
            \cup asked("armorClass",
                       {<<"my", "armor", "class">>, <<"my", "ac">>,
                        <<"armor", "class">>, <<"ac">>})
            \cup asked("inventory", {<<"my", "inventory">>, <<"inventory">>})
            \cup (IF SearchPhrases(normalized,
                                   {<<"character", "sheet">>, <<"my", "character">>})
                  THEN AllCharacterFields ELSE {})

\* dict.get(key, default)
Get(d, key, default) == IF key \in DOMAIN d THEN d[key] ELSE default

\* The sentence appended to every character fact response.
ForwardPrompt == W(" What do you do next?")

\* The sentences of _build_character_fact_response, given the inventory
\* descriptions (a list in s, or the exception raised while building it).
CharacterFactResponse(character, requested_fields, inventory_items) ==
    LET stats == Get(character, "stats", EmptyMap)
        hp == Get(character, "hp", EmptyMap)
        num(d, key, default) == W(ToString(Get(d, key, default)))
        name == W(Get(character, "name", "Unknown"))
        race == W(Get(character, "race", "Unknown"))
        class == W(Get(character, "class", "Unknown"))
        part(field, text) == IF field \in requested_fields THEN <<text>> ELSE <<>>
        parts ==
            part("name", <<W("Your name is "), name, W(".")>>)
            \o part("race", <<W("You are "), race, W(".")>>)
            \o part("class", <<W("Your class is "), class, W(".")>>)
            \o part("level", <<W("You are level "), num(character, "level", 1), W(".")>>)
            \o part("stats",
                    <<W("Your stats are "),
                      W("STR "), num(stats, "strength", 10),
                      W(", DEX "), num(stats, "dexterity", 10),
                      W(", CON "), num(stats, "constitution", 10),
                      W(", "),
                      W("INT "), num(stats, "intelligence", 10),
                      W(", WIS "), num(stats, "wisdom", 10),
                      W(", CHA "), num(stats, "charisma", 10), W(".")>>)
            \o part("hp",
                    <<W("Your HP is "), num(hp, "current", 10), W("/"),
                      num(hp, "max", 10), W(".")>>)
            \o part("armorClass",
                    <<W("Your armor class is "), num(character, "armorClass", 10),
                      W(".")>>)
            \o part("inventory",
                    <<W("Your inventory is ")>>
                        \o (IF inventory_items.s # <<>>
                            THEN Join(<<W(", ")>>, inventory_items.s)
                            ELSE <<W("Empty")>>)
                        \o <<W(".")>>)
        summary ==
            <<W("Your character is "), name, W(", a level "),
              num(character, "level", 1), W(" "), race, W(" "), class, W(".")>>
    IN IF inventory_items.kind = "OverflowError" THEN OverflowError
       ELSE PyStr(Join(<<SP>>, IF parts = <<>> THEN <<summary>> ELSE parts)
                    \o <<ForwardPrompt>>)

\* GameMasterModeHandler._build_character_fact_response: the text (in s),
\* or the exception that escapes _inventory_descriptions, which is called
\* before any field is looked at.
BuildCharacterFactResponse(character, requested_fields) ==
    CharacterFactResponse(
        character, requested_fields,
        InventoryDescriptions(
            Get(character, "inventory", [t |-> "list", items |-> <<>>])))

\* bool(character_data): None and the empty mapping are false.
NoCharacter == [present |-> FALSE]

HasCharacter(character) == character # NoCharacter /\ DOMAIN character # {}

\* GameMasterModeHandler._enforce_character_recall
EnforceCharacterRecall(character, input, response_text) ==
    IF ~HasCharacter(character) THEN PyStr(response_text)
    ELSE LET requested_fields == RequestedCharacterFields(input)
         IN IF requested_fields = {} THEN PyStr(response_text)
            ELSE BuildCharacterFactResponse(character, requested_fields)

\* BaseModeHandler.postprocess_response / GameMasterModeHandler
\* .postprocess_response: the reply returned, or the exception raised.
PostprocessResponse(mode, character, input, response) ==
    IF CreateModeHandler(mode) = "BaseModeHandler" THEN response
    ELSE IF response.kind # "dict" THEN response
    ELSE LET text == EnforceCharacterRecall(
                         character, input, Get(response.d, "response", <<>>))
         IN IF text.kind = "OverflowError" THEN text
            ELSE PyDict(("response" :> text.s) @@ response.d)

\* ------------------------------------------------------------ agent runtime
\* A JSON number that is not finite (NaN): json.loads accepts it, a strict
\* json.dumps rejects it.
PyNaN == [kind |-> "nan", d |-> EmptyMap, s |-> <<>>]

\* A JSON array of strings.
PyListOf(items) == [kind |-> "list", d |-> EmptyMap, s |-> Words(items)]

\* BrainAgent.process: required_fields
required_fields == <<"sensations", "thoughts", "memories", "self_reflection", "response">>

\* field in response_payload: a key of a mapping, an element of a list, a
\* substring of a string; any other value raises TypeError.
SupportsIn(response_payload) == response_payload.kind \in {"dict", "list", "str"}

FieldIn(field, response_payload) ==
    CASE response_payload.kind = "dict" -> field \in DOMAIN response_payload.d
      [] response_payload.kind = "list" ->
            \E i \in DOMAIN response_payload.s : response_payload.s[i] = W(field)
      [] OTHER ->
            \E i \in DOMAIN response_payload.s : response_payload.s[i].w = field

\* The condition under which process adds the quest metadata.
IsGameMasterPersona(persona) ==
    persona.mode = "game_master" /\ persona.name = "The Game Master"

quest_metadata ==
    [quest_title |-> <<W("The Shadowed Forest")>>,
     quest_setting |-> <<W("Dark Fantasy")>>,
     quest_tone |-> <<W("Gritty")>>,
     quest_difficulty |-> <<W("Moderate")>>]

\* The longest context prefix quoted in the fallback reply.
ContextPrefix == 100

\* The reply of process when the model text is no JSON or lacks a field.
fallback_response(raw_text, context_text, persona) ==
    LET base ==
            [sensations |-> <<<<W("Neural pathways activating")>>,
                              <<W("Processing sensory input")>>,
                              <<W("Awareness fluctuating")>>>>,
             thoughts |-> <<<<W("Analyzing the question")>>,
                            <<W("Searching for patterns")>>,
                            <<W("Formulating response")>>>>,
             memories |->
                 <<W("Context: ")>>
                     \o (IF context_text # <<>>
                         THEN SubSeq(context_text, 1,
                                     IF Len(context_text) < ContextPrefix
                                     THEN Len(context_text) ELSE ContextPrefix)
                         ELSE <<W("No prior context")>>),
             self_reflection |->
                 <<W("I'm working to understand and respond meaningfully")>>,
             response |->
                 IF raw_text # <<>> THEN raw_text
                 ELSE <<W("I processed your message but encountered difficulty generating a structured response.")>>]
    IN IF IsGameMasterPersona(persona) THEN quest_metadata @@ base ELSE base

\* The reply of the except clause of process.
ProcessErrorReply ==
    [sensations |-> <<Words(<<"Error", "processing", "input">>)>>,
     thoughts |-> <<Words(<<"System", "malfunction">>)>>,
     memories |-> Words(<<"Unable", "to", "access", "memory", "banks">>),
     self_reflection |-> Words(<<"Experiencing", "technical", "difficulties">>),
     response |-> Words(<<"I'm", "experiencing", "technical", "difficulties", "and",
                          "cannot", "process", "your", "request", "at", "the",
                          "moment", ".">>)]

\* The body of the except clause of invocations.
InvocationErrorReply ==
    [sensations |-> <<Words(<<"Error", "processing", "input">>)>>,
     thoughts |-> <<Words(<<"System", "malfunction">>)>>,
     memories |-> Words(<<"Unable", "to", "access", "memory", "banks">>),
     self_reflection |-> Words(<<"Experiencing", "technical", "difficulties">>),
     response |-> Words(<<"I'm", "experiencing", "technical", "difficulties", "and",
                          "cannot", "process", "your", "request", "at", "the",
                          "moment", ".">>)]

\* The outcome of bedrock_client.invoke_model raising.
ClientError == [kind |-> "ClientError", d |-> EmptyMap, s |-> <<>>]

\* An event is a record [kind, prompt, persona, context]: kind is the JSON
\* type of the request body ("invalid" when it is no JSON), prompt the type
\* of its prompt, persona a record [kind, mode, name, temperature] with the
\* type of the persona entry ("dict" also when the entry is missing, by the
\* default of event.get) and of its temperature.
\* The statements of process before the model call raise on an event that
\* is no mapping (event.get), a prompt without a length (len), a persona
\* that is no mapping (persona.get), a temperature float() rejects.
EventRaises(ev) ==
    \/ ev.kind # "dict"
    \/ ev.prompt # "str"
    \/ ev.persona.kind # "dict"
    \/ ev.persona.temperature # "number"

\* BrainAgent.process, given the outcome of the model call: the text of the
\* first content block, or the exception of invoke_model.
Process(ev, outcome) ==
    IF EventRaises(ev) \/ outcome.kind # "str"
    THEN PyDict(ProcessErrorReply)
    ELSE LET raw_text == outcome.s
             response_payload == JsonLoads(raw_text)
         IN IF response_payload = JSONDecodeError
            THEN PyDict(fallback_response(raw_text, ev.context, ev.persona))
            ELSE IF ~SupportsIn(response_payload)
            THEN PyDict(ProcessErrorReply)
            ELSE IF \A i \in DOMAIN required_fields :
                        FieldIn(required_fields[i], response_payload)
            THEN IF IsGameMasterPersona(ev.persona)
                 THEN IF response_payload.kind = "dict"
                      THEN PyDict(response_payload.d @@ quest_metadata)
                      ELSE PyDict(ProcessErrorReply)
                 ELSE response_payload
            ELSE IF response_payload.kind = "dict"
                 THEN PyDict(fallback_response(raw_text, ev.context, ev.persona))
                 ELSE PyDict(ProcessErrorReply)

\* json.dumps with allow_nan=False, as JSONResponse renders its content:
\* a value that is not finite raises ValueError.
RenderRaises(content) ==
    /\ content.kind = "dict"
    /\ "score" \in DOMAIN content.d
    /\ content.d["score"] = PyNaN

\* invocations: the status and body of the response.
Invocations(ev, outcome) ==
    IF ev.kind = "invalid"
    THEN [status |-> 500, body |-> PyDict(InvocationErrorReply), response |-> PyNone]
    ELSE LET response == Process(ev, outcome)
         IN IF RenderRaises(response)
            THEN [status |-> 500, body |-> PyDict(InvocationErrorReply),
                  response |-> response]
            ELSE [status |-> 200, body |-> response, response |-> response]

\* ------------------------------------------------------------ model invoker
\* An exception raised by a call.
Exc(name) == [kind |-> name, d |-> EmptyMap, s |-> <<>>]

ExceptionKinds ==
    {"TypeError", "AttributeError", "ValueError", "ClientError",
     "ReadTimeoutError", "EndpointConnectionError", "UnicodeDecodeError",
     "JSONDecodeError", "OverflowError", "Exception"}

Raised(v) == v.kind \in ExceptionKinds

\* bool(value): None, the empty mapping, list and string are false (PyNum
\* stands for a number other than zero).
Truthy(v) ==
    CASE v.kind = "dict" -> DOMAIN v.d # {}
      [] v.kind \in {"list", "str"} -> v.s # <<>>
      [] v.kind = "None" -> FALSE
      [] OTHER -> TRUE

\* The arguments of a generate_response call: the number of positional
\* arguments, the type of the variables keyword ("absent" when it is not
\* passed), the session_id keyword ("given", "empty" for the empty string
\* or None, "absent"), the metadata keyword and its personality_mode entry.
NoCall ==
    [positional |-> 0, variables |-> "dict", session_id |-> "given",
     metadata |-> "None", personality_mode |-> "default"]

\* The value of invoke_result while invoke has not been called.
NotInvoked == [kind |-> "not invoked", d |-> EmptyMap, s |-> <<>>]

\* The start of a line of a server-sent event stream that carries data.
DATA == W("data: ")

\* str.splitlines()
RECURSIVE SplitLines(_)
SplitLines(text) ==
    IF text = <<>> THEN <<>>
    ELSE IF \E i \in DOMAIN text : text[i] = NL
    THEN LET i == CHOOSE j \in DOMAIN text :
                      text[j] = NL /\ \A k \in 1..(j - 1) : text[k] # NL
         IN <<SubSeq(text, 1, i - 1)>> \o SplitLines(SubSeq(text, i + 1, Len(text)))
    ELSE <<text>>

RECURSIVE DataLines(_)
DataLines(lines) ==
    IF lines = <<>> THEN <<>>
    ELSE (IF Head(lines) # <<>> /\ Head(Head(lines)) = DATA
          THEN <<Tail(Head(lines))>> ELSE <<>>)
         \o DataLines(Tail(lines))

\* Variant: the prefixes are left in place and every line is kept.
StripSsePrefixesKeepAll(raw_text) == raw_text

\* AgentCoreClient._strip_sse_prefixes
StripSsePrefixes(raw_text) ==
    LET data_lines == DataLines(SplitLines(raw_text))
    IN IF data_lines # <<>> THEN Join(<<>>, data_lines) ELSE raw_text

\* A response of invoke_agent_runtime is a record [contentType, body, text]:
\* body is "None", "stream" (readable bytes that decode to text),
\* "invalid utf-8" (readable bytes that do not decode), "broken stream" (a
\* stream whose read raises) or "unreadable" (an object without read that
\* is no bytes).
RuntimeResponse(contentType, body, text) ==
    [kind |-> "response", contentType |-> contentType, body |-> body, text |-> text]

\* Variant: a body that is no JSON raises instead of being wrapped.
DecodeResponseStrict(response) ==
    CASE response.body = "None" -> PyDict(EmptyMap)
      [] response.body = "unreadable" -> Exc("AttributeError")
      [] response.body = "invalid utf-8" -> Exc("UnicodeDecodeError")
      [] response.body = "broken stream" -> Exc("ReadTimeoutError")
      [] OTHER ->
            LET raw_text ==
                    Strip(IF response.contentType = "text/event-stream"
                          THEN StripSsePrefixes(response.text)
                          ELSE response.text)
            IN IF raw_text = <<>> THEN PyDict(EmptyMap) ELSE JsonLoads(raw_text)

\* AgentCoreClient._decode_response
DecodeResponse(response) ==
    CASE response.body = "None" -> PyDict(EmptyMap)
      [] response.body = "unreadable" -> Exc("AttributeError")
      [] response.body = "invalid utf-8" -> Exc("UnicodeDecodeError")
      [] response.body = "broken stream" -> Exc("ReadTimeoutError")
      [] OTHER ->
            LET raw_text ==
                    Strip(IF response.contentType = "text/event-stream"
                          THEN StripSsePrefixes(response.text)
                          ELSE response.text)
                decoded == JsonLoads(raw_text)
            IN IF raw_text = <<>> THEN PyDict(EmptyMap)
               ELSE IF decoded = JSONDecodeError
               THEN PyDict([response |-> raw_text])
               ELSE decoded

\* AgentCoreClient.invoke, given the outcome of invoke_agent_runtime: an
\* exception or a response.
Invoke(has_session_id, outcome) ==
    IF ~has_session_id THEN Exc("ValueError")
    ELSE IF Raised(outcome) THEN outcome
    ELSE DecodeResponse(outcome)

\* Binding the arguments of a call to the signature
\* (self, *, variables, session_id, template_name=None, metadata=None):
\* a positional argument, or a missing variables or session_id, raises
\* TypeError at the call.
BindGenerateResponse(c) ==
    IF c.positional > 0 \/ c.variables = "absent" \/ c.session_id = "absent"
    THEN Exc("TypeError") ELSE PyNone

\* list(variables.keys()) in the logging call before the try block raises
\* AttributeError when variables is no mapping.
VariablesKeysRaises(c) == c.variables # "dict"

\* LanguageAgent.generate_response: [result, invoked]: what the call returns
\* or raises, and what invoke returned or raised (NotInvoked when it was not
\* called).
GenerateResponse(c, outcome) ==
    IF Raised(BindGenerateResponse(c))
    THEN [result |-> Exc("TypeError"), invoked |-> NotInvoked]
    ELSE IF VariablesKeysRaises(c)
    THEN [result |-> Exc("AttributeError"), invoked |-> NotInvoked]
    ELSE LET response == Invoke(c.session_id = "given", outcome)
         IN [result |-> IF Raised(response) \/ ~Truthy(response)
                        THEN PyDict(FallbackResponse) ELSE response,
             invoked |-> response]

\* DepthAgent.enhance_response with what it does besides returning:
\* [raised, value, input]: the exception that reaches the caller (PyNone
\* when the call returns), the reply returned, and the reply that was
\* handed in as it is after the call.  original.lower() raises
\* AttributeError on a response that is no string; += raises TypeError on
\* a self_reflection that is None, and on one that is a list it extends, in
\* place, the list the copy shares with the reply handed in (one item per
\* character of the note; the model adds one item per token).
EnhanceResponseOutcome(response, c) ==
    IF IsErrorResponse(response) \/ "response" \notin DOMAIN response
    THEN [raised |-> PyNone, value |-> response, input |-> response]
    ELSE IF ValueType(response["response"]) # "str"
    THEN [raised |-> Exc("AttributeError"), value |-> response, input |-> response]
    ELSE IF "self_reflection" \notin DOMAIN response
            \/ ValueType(response["self_reflection"]) = "str"
    THEN [raised |-> PyNone, value |-> EnhanceResponse(response, c), input |-> response]
    ELSE IF ValueType(response["self_reflection"]) = "None"
    THEN [raised |-> Exc("TypeError"), value |-> response, input |-> response]
    ELSE LET items == response["self_reflection"][1].doc.s
             extended ==
                 <<[w |-> "{list}",
                    doc |-> [kind |-> "list", d |-> EmptyMap,
                             s |-> items \o ApproachNote(c.perspective, c.dimension,
                                                         c.tone)]]>>
         IN [raised |-> PyNone,
             value |-> [EnhanceResponse([response EXCEPT !["self_reflection"] = <<>>], c)
                           EXCEPT !["self_reflection"] = extended],
             input |-> [response EXCEPT !["self_reflection"] = extended]]

\* --------------------------------------------------------------- controller
\* str(value) inside a text: one token that carries the value.
Repr(value) == [w |-> "{str}", doc |-> value]

\* The number of interactions process_input asks retrieve_context for.
ContextInteractions == 100

\* MemoryAgent.retrieve_context: the interactions of conversation_history[-n:]
\* as text.  The slice [-n:] starts n items before the end, and at the first
\* item when n is 0 (-0 is 0) or the list has no more than n items.
RECURSIVE InteractionsText(_)
InteractionsText(recent) ==
    IF recent = <<>> THEN <<>>
    ELSE <<W("User: ")>> \o Head(recent).user_input \o <<NL>>
         \o <<W("Brain: "), Repr(Head(recent).response), NL, NL>>
         \o InteractionsText(Tail(recent))

RetrieveContext(history, n) ==
    InteractionsText(
        SubSeq(history,
               IF n = 0 \/ Len(history) <= n THEN 1 ELSE Len(history) - n + 1,
               Len(history)))

\* [str(item) for item in inventory], or [str(inventory)] for no list.
RECURSIVE StrItems(_)
StrItems(items) ==
    IF items = <<>> THEN <<>>
    ELSE <<<<Repr(Head(items))>>>> \o StrItems(Tail(items))

\* The text _format_character_context builds from a sheet and the texts of
\* its inventory items.
CharacterContextText(character, inventory_items) ==
    LET stats == Get(character, "stats", EmptyMap)
        hp == Get(character, "hp", EmptyMap)
        num(d, key, default) == W(ToString(Get(d, key, default)))
        lines ==
            <<<<W("=== PLAYER CHARACTER ===")>>,
              <<W("Name: "), W(Get(character, "name", "Unknown"))>>,
              <<W("Race: "), W(Get(character, "race", "Unknown"))>>,
              <<W("Class: "), W(Get(character, "class", "Unknown"))>>,
              <<W("Level: "), num(character, "level", 1)>>,
              <<>>,
              <<W("STATS:")>>,
              <<W("  Strength: "), num(stats, "strength", 10)>>,
              <<W("  Dexterity: "), num(stats, "dexterity", 10)>>,
              <<W("  Constitution: "), num(stats, "constitution", 10)>>,
              <<W("  Intelligence: "), num(stats, "intelligence", 10)>>,
              <<W("  Wisdom: "), num(stats, "wisdom", 10)>>,
              <<W("  Charisma: "), num(stats, "charisma", 10)>>,
              <<>>,
              <<W("HP: "), num(hp, "current", 10), W("/"), num(hp, "max", 10)>>,
              <<W("Armor Class: "), num(character, "armorClass", 10)>>,
              <<>>,
              <<W("INVENTORY: ")>>
                  \o (IF inventory_items # <<>>
                      THEN Join(<<W(", ")>>, inventory_items) ELSE <<W("Empty")>>),
              <<W("========================")>>>>
    IN Join(<<NL>>, lines)

\* Controller._format_character_context
FormatCharacterContext(character) ==
    CharacterContextText(
        character,
        StrItems(Get(character, "inventory", [t |-> "list", items |-> <<>>]).items))

\* GameMasterModeHandler._format_character_context: the text (in s), or the
\* exception that escapes _inventory_descriptions.
HandlerFormatCharacterContext(character) ==
    LET inventory_items ==
            InventoryDescriptions(
                Get(character, "inventory", [t |-> "list", items |-> <<>>]))
    IN IF Raised(inventory_items) THEN inventory_items
       ELSE PyStr(CharacterContextText(character, inventory_items.s))

\* What the two retrieve_memory_records calls of a turn bring: for the
\* semantic and for the character namespace a list of texts, or the
\* exception the call raises.
Records(semantic, character) == [semantic |-> semantic, character |-> character]

NoRecords == Records(PyStr(<<>>), PyStr(<<>>))

\* records after the two guarded extend calls: a retrieval that raises is
\* logged and adds nothing.
RetrievedRecords(retrievals) ==
    (IF Raised(retrievals.semantic) THEN <<>> ELSE retrievals.semantic.s)
        \o (IF Raised(retrievals.character) THEN <<>> ELSE retrievals.character.s)

\* The loop over records: each record stripped, blank and repeated ones
\* skipped, the first appearance kept.
RECURSIVE UniqueRecords(_, _)
UniqueRecords(records, seen) ==
    IF records = <<>> THEN <<>>
    ELSE LET normalized == Strip(Head(records))
         IN IF normalized = <<>> \/ normalized \in seen
            THEN UniqueRecords(Tail(records), seen)
            ELSE <<normalized>>
                     \o UniqueRecords(Tail(records), seen \cup {normalized})

\* Variant: every record that is not blank is listed, repeated or not.
MemoryBlockWithRepeats(records) ==
    LET stripped == [i \in DOMAIN records |-> Strip(records[i])]
        listed == SelectSeq(stripped, LAMBDA r : r # <<>>)
    IN IF listed = <<>> THEN <<>>
       ELSE Join(<<NL>>,
                 <<<<W("=== AGENTCORE MEMORY ===")>>>>
                     \o [i \in DOMAIN listed |-> <<W("- ")>> \o listed[i]]
                     \o <<<<W("=======================")>>>>)

\* The memory block of the retrieved records, empty when none is left.
MemoryBlock(records) ==
    LET unique_records == UniqueRecords(records, {})
    IN IF unique_records = <<>> THEN <<>>
       ELSE Join(<<NL>>,
                 <<<<W("=== AGENTCORE MEMORY ===")>>>>
                     \o [i \in DOMAIN unique_records |->
                            <<W("- ")>> \o unique_records[i]]
                     \o <<<<W("=======================")>>>>)

\* GameMasterModeHandler._retrieve_agentcore_memory
HandlerRetrieveAgentcoreMemory(retrievals) ==
    MemoryBlock(RetrievedRecords(retrievals))

\* Controller._retrieve_agentcore_memory: nothing outside the narrative
\* mode, else as the mode handler's.
RetrieveAgentcoreMemory(mode, retrievals) ==
    IF mode # "game_master" THEN <<>>
    ELSE MemoryBlock(RetrievedRecords(retrievals))

\* BaseModeHandler.enrich_context / GameMasterModeHandler.enrich_context:
\* the enriched context (in s), or the exception raised.
EnrichContext(mode, character, turn_history, retrievals) ==
    IF CreateModeHandler(mode) = "BaseModeHandler" THEN PyStr(turn_history)
    ELSE LET memory_context == HandlerRetrieveAgentcoreMemory(retrievals)
             enriched_context ==
                 IF memory_context # <<>>
                 THEN (IF turn_history # <<>>
                       THEN memory_context \o <<NL, NL>> \o turn_history
                       ELSE memory_context)
                 ELSE turn_history
         IN IF ~HasCharacter(character) THEN PyStr(enriched_context)
            ELSE LET character_context == HandlerFormatCharacterContext(character)
                 IN IF Raised(character_context) THEN character_context
                    ELSE PyStr(IF enriched_context # <<>>
                               THEN character_context.s \o <<NL, NL>>
                                        \o enriched_context
                               ELSE character_context.s)

\* The memory store of the client: whether a memory id is configured, and
\* the writes that fail ("USER" and "ASSISTANT" events, the "record").
Store(memory_id, faults) == [memory_id |-> memory_id, faults |-> faults]

NoStore == Store(TRUE, {})

\* One call of the store by the client: the operation, the role of an event
\* ("" for a record), the text, and whether the store accepted it.
Write(op, role, text, ok) == [op |-> op, role |-> role, text |-> text, ok |-> ok]

\* AgentCoreClient.create_short_term_event: [raised, log]: nothing is sent
\* without a memory id or without text; else create_event is called and
\* raises when the store fails.
CreateShortTermEvent(store, role, text) ==
    IF ~store.memory_id \/ text = <<>>
    THEN [raised |-> PyNone, log |-> <<>>]
    ELSE IF role \in store.faults
    THEN [raised |-> Exc("ClientError"),
          log |-> <<Write("create_event", role, text, FALSE)>>]
    ELSE [raised |-> PyNone, log |-> <<Write("create_event", role, text, TRUE)>>]

\* One batch_create_memory_records call: a write that carries the request
\* identifier of its record.
RecordWrite(request_identifier, text, ok) ==
    [op |-> "batch_create_memory_records", role |-> "", text |-> text, ok |-> ok,
     id |-> request_identifier]

\* AgentCoreClient.save_memory_record
SaveMemoryRecord(store, request_identifier, content_text) ==
    IF ~store.memory_id \/ request_identifier = "" \/ content_text = <<>>
    THEN [raised |-> PyNone, log |-> <<>>]
    ELSE IF "record" \in store.faults
    THEN [raised |-> Exc("ClientError"),
          log |-> <<RecordWrite(request_identifier, content_text, FALSE)>>]
    ELSE [raised |-> PyNone,
          log |-> <<RecordWrite(request_identifier, content_text, TRUE)>>]

\* str(uuid.uuid4()): the n-th value drawn, unlike every other one.
Uuid4(n) == "uuid-" \o ToString(n)

\* request_id = message_id or str(uuid.uuid4()), and the request identifier
\* made of it; uuids values were drawn before.
RequestIdentifier(id, drawn) ==
    "character-profile-" \o (IF id # "" THEN id ELSE Uuid4(drawn + 1))

\* final_response.get("response", "") of a mapping, str() of anything else.
SyncResponseText(final_response) ==
    CASE final_response.kind = "dict" -> Get(final_response.d, "response", <<>>)
      [] final_response.kind = "str" -> final_response.s
      [] OTHER -> <<Repr(final_response)>>

\* Variant: the ASSISTANT event is not created.
ShortTermEventsUserOnly(store, input, response_text) ==
    [raised |-> PyNone, log |-> CreateShortTermEvent(store, "USER", input).log]

\* The first try block of sync_memory: the USER event, then the ASSISTANT
\* event when there is response text; an exception ends the block and is
\* logged.
ShortTermEvents(store, input, response_text) ==
    LET user_event == CreateShortTermEvent(store, "USER", input)
        assistant_event == CreateShortTermEvent(store, "ASSISTANT", response_text)
    IN IF Raised(user_event.raised) \/ response_text = <<>>
       THEN [raised |-> PyNone, log |-> user_event.log]
       ELSE [raised |-> PyNone, log |-> user_event.log \o assistant_event.log]

\* The text _format_character_memory builds from a sheet and the texts of
\* its inventory items.
CharacterMemoryText(character, inventory_items) ==
    LET stats == Get(character, "stats", EmptyMap)
        hp == Get(character, "hp", EmptyMap)
        num(d, key, default) == W(ToString(Get(d, key, default)))
    IN <<W("Character profile: Name="), W(Get(character, "name", "Unknown")),
         W("; Race="), W(Get(character, "race", "Unknown")),
         W("; Class="), W(Get(character, "class", "Unknown")),
         W("; Level="), num(character, "level", 1),
         W("; STR="), num(stats, "strength", 10),
         W(" DEX="), num(stats, "dexterity", 10),
         W(" CON="), num(stats, "constitution", 10),
         W(" INT="), num(stats, "intelligence", 10),
         W(" WIS="), num(stats, "wisdom", 10),
         W(" CHA="), num(stats, "charisma", 10),
         W("; HP="), num(hp, "current", 10), W("/"), num(hp, "max", 10),
         W("; ArmorClass="), num(character, "armorClass", 10),
         W("; Inventory=")>>
           \o (IF Join(<<W(", ")>>, inventory_items) # <<>>
               THEN Join(<<W(", ")>>, inventory_items) ELSE <<W("Empty")>>)

\* Controller._format_character_memory
FormatCharacterMemory(character) ==
    PyStr(CharacterMemoryText(
              character,
              StrItems(Get(character, "inventory",
                           [t |-> "list", items |-> <<>>]).items)))

\* GameMasterModeHandler._format_character_memory: the text (in s), or the
\* exception that escapes _inventory_descriptions.
HandlerFormatCharacterMemory(character) ==
    LET inventory_items ==
            InventoryDescriptions(
                Get(character, "inventory", [t |-> "list", items |-> <<>>]))
    IN IF Raised(inventory_items) THEN inventory_items
       ELSE PyStr(CharacterMemoryText(character, inventory_items.s))

\* Variant: no try block around the record, its exception reaches the caller.
CharacterRecordUnguarded(store, character_text, id, drawn) ==
    IF Raised(character_text)
    THEN [raised |-> character_text, log |-> <<>>, uuids |-> drawn]
    ELSE [uuids |-> IF id # "" THEN drawn ELSE drawn + 1]
            @@ SaveMemoryRecord(store, RequestIdentifier(id, drawn), character_text.s)

\* The second try block of sync_memory, given the character text or the
\* exception raised while it was formatted, the message id and the number
\* of uuid4 values drawn before: an exception is logged.  [raised, log,
\* uuids]: uuids counts the values drawn after the block.
CharacterRecord(store, character_text, id, drawn) ==
    IF Raised(character_text)
    THEN [raised |-> PyNone, log |-> <<>>, uuids |-> drawn]
    ELSE [raised |-> PyNone,
          log |-> SaveMemoryRecord(store, RequestIdentifier(id, drawn),
                                   character_text.s).log,
          uuids |-> IF id # "" THEN drawn ELSE drawn + 1]

\* The two blocks of a sync one after the other: [raised, log, uuids].
SyncBlocks(store, has_character, character_text, input, final_response, id, drawn) ==
    LET events == ShortTermEvents(store, input, SyncResponseText(final_response))
        record == CharacterRecord(store, character_text, id, drawn)
    IN IF Raised(events.raised) \/ ~has_character
       THEN [raised |-> events.raised, log |-> events.log, uuids |-> drawn]
       ELSE [raised |-> record.raised, log |-> events.log \o record.log,
             uuids |-> record.uuids]

\* BaseModeHandler.sync_memory / GameMasterModeHandler.sync_memory:
\* [raised, log, uuids]: the exception that reaches the caller (PyNone when
\* the call returns), the calls made to the store and the number of uuid4
\* values drawn after the call.
SyncMemory(mode, character, store, input, final_response, id, drawn) ==
    IF CreateModeHandler(mode) = "BaseModeHandler"
    THEN [raised |-> PyNone, log |-> <<>>, uuids |-> drawn]
    ELSE SyncBlocks(store, HasCharacter(character),
                    HandlerFormatCharacterMemory(character), input, final_response,
                    id, drawn)

\* Controller._sync_agentcore_memory
SyncAgentcoreMemory(mode, character, store, input, final_response, id, drawn) ==
    IF mode # "game_master"
    THEN [raised |-> PyNone, log |-> <<>>, uuids |-> drawn]
    ELSE SyncBlocks(store, HasCharacter(character),
                    FormatCharacterMemory(character), input, final_response,
                    id, drawn)

\* The context process_input hands on.
TurnContext(history, mode, character, records) ==
    LET retrieved == RetrieveContext(history, ContextInteractions)
        memory_context == RetrieveAgentcoreMemory(mode, records)
        context_with_memory ==
            IF memory_context # <<>>
            THEN (IF retrieved # <<>>
                  THEN memory_context \o <<NL, NL>> \o retrieved
                  ELSE memory_context)
            ELSE retrieved
    IN IF HasCharacter(character)
       THEN FormatCharacterContext(character) \o <<NL, NL>> \o context_with_memory
       ELSE context_with_memory

\* The arguments of the generate_response call of process_input: the
\* formatted prompt as a positional argument, session_id and metadata by
\* keyword, no variables.
ControllerCall(mode) ==
    [positional |-> 1, variables |-> "absent", session_id |-> "given",
     metadata |-> "dict", personality_mode |-> mode]

\* SelfAgent.review_response: passes the reply through.
ReviewResponse(response) == response

\* Controller._build_character_fact_response: as the mode handler's, with
\* every inventory item written by str().
ControllerBuildCharacterFactResponse(character, requested_fields) ==
    CharacterFactResponse(
        character, requested_fields,
        PyStr(StrItems(
            Get(character, "inventory", [t |-> "list", items |-> <<>>]).items)))

\* Controller._enforce_character_recall
ControllerEnforceCharacterRecall(character, input, response_text) ==
    IF ~HasCharacter(character) THEN PyStr(response_text)
    ELSE LET requested_fields == RequestedCharacterFields(input)
         IN IF requested_fields = {} THEN PyStr(response_text)
            ELSE ControllerBuildCharacterFactResponse(character, requested_fields)

\* Controller.process_input, the lines after the review: the recall is
\* applied to a reply that is a mapping, whatever the personality mode.
ControllerPostprocess(character, input, final_response) ==
    IF final_response.kind # "dict" THEN final_response
    ELSE LET text == ControllerEnforceCharacterRecall(
                         character, input, Get(final_response.d, "response", <<>>))
         IN PyDict(("response" :> text.s) @@ final_response.d)

\* Binding the call save_response(response=, message_id=, owner=) to the
\* signature save_response(self, response): a keyword the signature does
\* not name raises TypeError at the call.
save_response_parameters == {"response"}

BindSaveResponse(keywords) ==
    IF keywords \subseteq save_response_parameters THEN PyNone ELSE Exc("TypeError")

\* MemoryAgent.save_response: raises when the mutation is not answered
\* with status 200.
SaveResponse(keywords, status) ==
    IF Raised(BindSaveResponse(keywords)) THEN Exc("TypeError")
    ELSE IF status # 200 THEN Exc("Exception") ELSE PyNone

\* The reply process_input hands to the depth stage (the error reply
\* stands in when the invoker raised and the stage is not reached).
TurnDepthInput(history, mode, character, records, outcome) ==
    LET raw == GenerateResponse(ControllerCall(mode), outcome).result
    IN IF Raised(raw) THEN ErrorReply
       ELSE ApplyEmotions(
                AnalyzeInput(raw, TurnContext(history, mode, character, records))).d

\* The stages of a turn, in the order process_input writes them.
AllStages ==
    <<"enrich", "invoke", "normalize", "enhance", "postprocess", "persist", "sync">>

\* What process_input leaves behind when a stage raises: the exception
\* reaches the caller, the history is as it was, trace holds the stages that
\* ran to their end.
TurnRaised(exception, history, turn_context, raw, invoked, parsed, enhanced, stages, log, drawn) ==
    [uuids |-> drawn, value |-> exception, history |-> history, context |-> turn_context,
     raw |-> raw, invoked |-> invoked, parsed |-> parsed, enhanced |-> enhanced,
     trace |-> stages, log |-> log]

\* Variant: the memory sync runs before the reply is saved.
PersistAndSyncEagerSync(history, mode, character, store, input, final, status, id, drawn) ==
    LET saved == SaveResponse({"response", "message_id", "owner"}, status)
        synced == SyncAgentcoreMemory(mode, character, store, input, final, id, drawn)
    IN [value |-> IF Raised(synced.raised) THEN synced.raised
                  ELSE IF Raised(saved) THEN saved ELSE final,
        history |-> IF Raised(synced.raised) \/ Raised(saved) THEN history
                    ELSE Append(history, [user_input |-> input, response |-> final]),
        log |-> synced.log, uuids |-> synced.uuids, stages |-> 0,
        saved |-> IF Raised(synced.raised) THEN PyNone ELSE final,
        synced |-> final]

\* Controller.process_input, the lines after postprocessing: the reply is
\* saved, the memory is synced, the turn is appended to the history and the
\* reply is returned.  [value, history, log, uuids, stages, saved, synced]:
\* what is returned or raised, the history after it, the calls made to the
\* memory store, the number of the two stages that ran to their end, and
\* the replies handed to save_response and to the sync (PyNone when the
\* call was not reached).
PersistAndSync(history, mode, character, store, input, final, status, id, drawn) ==
    LET saved == SaveResponse({"response", "message_id", "owner"}, status)
        synced == SyncAgentcoreMemory(mode, character, store, input, final, id, drawn)
    IN IF Raised(saved)
       THEN [value |-> saved, history |-> history, log |-> <<>>, uuids |-> drawn,
             stages |-> 0, saved |-> final, synced |-> PyNone]
       ELSE IF Raised(synced.raised)
       THEN [value |-> synced.raised, history |-> history, log |-> synced.log,
             uuids |-> synced.uuids, stages |-> 1, saved |-> final, synced |-> final]
       ELSE [value |-> final,
             history |-> Append(history, [user_input |-> input, response |-> final]),
             log |-> synced.log, uuids |-> synced.uuids, stages |-> 2,
             saved |-> final, synced |-> final]

\* Controller.process_input: [value, history, context, raw, invoked, parsed,
\* enhanced, trace, log]: what the call returns or raises, the conversation
\* history after it, the context it built, what the invoker returned or
\* raised, what invoke did, what the normalizer and the depth stage
\* returned, the stages that ran to their end and the calls made to the
\* memory store.  records are the memory records retrieved, outcome the
\* outcome of the runtime call, c the draws of the depth stage, status the
\* status of the save mutation, store the memory store.
ProcessInput(history, mode, character, input, records, outcome, c, status, store, id, drawn) ==
    LET turn_context == TurnContext(history, mode, character, records)
        generated == GenerateResponse(ControllerCall(mode), outcome)
        raw == generated.result
    IN IF Raised(raw)
       THEN TurnRaised(raw, history, turn_context, raw, generated.invoked,
                       PyNone, PyNone, <<"enrich">>, <<>>, drawn)
                @@ [saved |-> PyNone, synced |-> PyNone]
       ELSE LET parsed == AnalyzeInput(raw, turn_context)
                emotional == ApplyEmotions(parsed)
                enhanced == PyDict(EnhanceResponse(emotional.d, c))
                reviewed == ReviewResponse(enhanced)
                final == ControllerPostprocess(character, input, reviewed)
                tail == PersistAndSync(history, mode, character, store, input,
                                       final, status, id, drawn)
            IN IF Raised(tail.value)
               THEN TurnRaised(tail.value, history, turn_context, raw,
                               generated.invoked, parsed, enhanced,
                               SubSeq(AllStages, 1, 5 + tail.stages),
                               tail.log, tail.uuids)
                        @@ [saved |-> tail.saved, synced |-> tail.synced]
               ELSE [value |-> final, history |-> tail.history,
                     context |-> turn_context, raw |-> raw,
                     invoked |-> generated.invoked, parsed |-> parsed,
                     enhanced |-> enhanced, trace |-> AllStages,
                     log |-> tail.log, uuids |-> tail.uuids,
                     saved |-> tail.saved, synced |-> tail.synced]

\* ------------------------------------------------------------ stream handler
\* A record of a stream event: its eventName and the S values of content,
\* conversationId, id and owner of its NewImage ("" for a value that is
\* absent, the whole NewImage included).
StreamRecord(eventName, content, conversationId, id, owner) ==
    [eventName |-> eventName, content |-> content,
     conversationId |-> conversationId, id |-> id, owner |-> owner]

\* The arguments of a process_input call of the handler.
ProcessInputArguments(record) ==
    [user_input |-> record.content, message_id |-> record.id, owner |-> record.owner]

\* The loop of main over the records that are left: [raised, responses,
\* calls]: the exception that ended the loop (PyNone when it ran to its
\* end), the responses appended and the process_input calls made.
\* turns[record] is what the process_input call made for the record does.
RECURSIVE MainLoop(_, _, _, _)
MainLoop(records, responses, calls, turns) ==
    IF records = <<>>
    THEN [raised |-> PyNone, responses |-> responses, calls |-> calls]
    ELSE LET record == Head(records)
         IN IF ~(/\ record.eventName \in {"INSERT", "MODIFY"}
                 /\ record.content # ""
                 /\ record.conversationId # "")
            THEN MainLoop(Tail(records), responses, calls, turns)
            ELSE IF Raised(turns[record].value)
            THEN [raised |-> turns[record].value, responses |-> responses,
                  calls |-> Append(calls, ProcessInputArguments(record))]
            ELSE MainLoop(Tail(records),
                          Append(responses,
                                 [user_input |-> record.content,
                                  response |-> turns[record].value]),
                          Append(calls, ProcessInputArguments(record)), turns)

\* handler.main: [raised, statusCode, body, calls].
Main(stream_event, turns) ==
    LET looped == MainLoop(stream_event.Records, <<>>, <<>>, turns)
    IN IF Raised(looped.raised)
       THEN [raised |-> looped.raised, statusCode |-> 0, body |-> <<>>,
             calls |-> looped.calls]
       ELSE [raised |-> PyNone, statusCode |-> 200, body |-> looped.responses,
             calls |-> looped.calls]

\* ------------------------------------------------------------------- state
VARIABLES
    pc,                   \* position of the operation being run
    personality_mode,     \* Controller.personality_mode / persona mode
    character_data,       \* the character sheet, or NoCharacter
    user_input,           \* the user's utterance
    context,              \* the context text handed to the pipeline
    raw_response,         \* what the model backend / the invoker returned
    parsed_response,      \* what ReasoningAgent.analyze_input returned
    enhanced_response,    \* the reply after the depth stage
    final_response,       \* the reply after postprocessing
    conversation_history, \* Controller.conversation_history
    session_id,           \* the session id handed to the invoker
    event,                \* the event handed to the entry point
    http_status,          \* status of the /invocations response
    http_body,            \* body of the /invocations response
    call,                 \* the arguments of a generate_response call
    invoke_result,        \* what AgentCoreClient.invoke returned or raised
    memory_records,       \* the records the memory store returns for the turn
    memory_store,         \* the memory store: configured or not, failing writes
    memory_log,           \* the writes made to the memory store, in order
    trace,                \* the stages of the turn that have run, in order
    analyze_log,          \* the analyze_input calls made on one agent
    cap,                  \* the n handed to retrieve_context
    message_id,           \* the id of the message of the turn ("" when it has none)
    uuids,                \* the number of uuid4 values drawn so far
    turn_number,          \* the number of the turn being served
    processed,            \* the process_input calls of the stream handler, in order
    runtime_response,     \* what invoke_agent_runtime returned or raised
    saved_response,       \* the reply handed to save_response (PyNone: not called)
    synced_response       \* the reply handed to the memory sync (PyNone: not called)

vars ==
    <<pc, personality_mode, character_data, user_input, context, raw_response,
      parsed_response, enhanced_response, final_response, conversation_history,
      session_id, event, http_status, http_body, call, invoke_result,
      memory_records, memory_store, memory_log, trace, analyze_log, cap,
      message_id, uuids, turn_number, processed, runtime_response,
      saved_response, synced_response>>

\* ------------------------------------------------------- raw model outputs
SelfReflectionKeys == {"self_reflection", "selfReflection"}

\* The content of a field: empty, or some genuine content.
FieldValue(key, variant) ==
    IF variant = "empty" THEN <<>>
    ELSE CASE key = "sensations" -> <<Words(<<"warmth">>), Words(<<"curiosity">>)>>
           [] key = "thoughts" -> <<Words(<<"a", "simple", "greeting">>)>>
           [] key = "memories" -> Words(<<"none", "yet">>)
           [] key = "self_reflection" -> Words(<<"I", "wonder">>)
           [] key = "selfReflection" -> Words(<<"aliased", "reflection">>)
           [] key = "response" -> Words(<<"Hello", "there", ".">>)
           [] OTHER -> Words(<<"The", "Sunken", "Keep">>)

KeySets ==
    {required_keys,
     (required_keys \ {"self_reflection"}) \cup {"selfReflection"},
     required_keys \cup {"selfReflection"},
     required_keys \cup {"quest_title"},
     required_keys \ {"response"},
     required_keys \ {"sensations"},
     (required_keys \ {"self_reflection", "thoughts"}) \cup {"selfReflection"},
     {"response"},
     {}}

Payloads ==
    {[k \in K |-> FieldValue(k, variant)] : K \in KeySets, variant \in {"empty", "full"}}

\* The values a JSON text of the model can decode to.
JsonDocs ==
    {PyDict(p) : p \in Payloads} \cup {PyList, PyNum, PyNone, PyStr(Words(<<"hi">>))}

Pads == {[i \in 1..n |-> NL] : n \in 0..MaxPad} \cup {<<SP>>}

Opens ==
    {<<>>, <<FENCE>>, <<FENCE, W("json")>>, <<FENCE, W("JSON")>>,
     <<FENCE, W("python")>>}

Closes == {<<>>, <<FENCE>>}

CompleteDoc == PyDict([k \in required_keys |-> FieldValue(k, "full")])

Bodies ==
    {<<Lit(doc)>> : doc \in JsonDocs}
        \cup {<<>>, Words(<<"I", "feel", "strange">>),
              <<Lit(CompleteDoc), W("done")>>, <<W("Sure"), W(":"), Lit(CompleteDoc)>>}

RawTexts ==
    {p1 \o open \o p2 \o body \o p3 \o close \o p4 :
        p1 \in Pads, open \in Opens, p2 \in Pads, body \in Bodies,
        p3 \in Pads, close \in Closes, p4 \in Pads}

\* Mappings whose response field is itself a model text.
NestedPayloads ==
    {[response |-> open \o body \o close] :
        open \in Opens, body \in Bodies, close \in Closes}
        \cup {[response |-> open \o body \o close,
               memories |-> FieldValue("memories", "full")] :
                open \in Opens, body \in Bodies, close \in Closes}

RawOutputs ==
    {PyDict(p) : p \in Payloads \cup NestedPayloads}
        \cup {PyStr(t) : t \in RawTexts}
        \cup {PyNone, PyList, PyNum}

Contexts == {<<>>, Words(<<"User", ":", "hi">>)}

\* --------------------------------------------- specification: normalizer
\* ReasoningAgent.analyze_input applied to every raw output.
InitNormalize ==
    /\ pc = "analyze_input"
    /\ raw_response \in RawOutputs
    /\ context \in Contexts
    /\ parsed_response = PyNone
    /\ personality_mode = "default"
    /\ character_data = NoCharacter
    /\ user_input = <<>>
    /\ enhanced_response = PyNone
    /\ final_response = PyNone
    /\ conversation_history = <<>>
    /\ session_id = ""
    /\ event = PyNone
    /\ http_status = 0
    /\ http_body = PyNone
    /\ call = NoCall
    /\ invoke_result = PyNone
    /\ memory_records = NoRecords
    /\ memory_store = NoStore
    /\ memory_log = <<>>
    /\ trace = <<>>
    /\ analyze_log = <<>>
    /\ cap = 0
    /\ message_id = ""
    /\ uuids = 0
    /\ turn_number = 1
    /\ processed = <<>>
    /\ runtime_response = PyNone
    /\ saved_response = PyNone
    /\ synced_response = PyNone

AnalyzeInputCall ==
    /\ pc = "analyze_input"
    /\ parsed_response' = AnalyzeInput(raw_response, context)
    /\ pc' = "analyzed"
    /\ UNCHANGED <<memory_records, memory_store, memory_log, trace, analyze_log, cap>>
    /\ UNCHANGED <<message_id, uuids, turn_number, processed, runtime_response>>
    /\ UNCHANGED <<saved_response, synced_response>>
    /\ UNCHANGED <<personality_mode, character_data, user_input, context,
                   raw_response, enhanced_response, final_response,
                   conversation_history, session_id, event, http_status, http_body,
                   call, invoke_result>>

NextNormalize == AnalyzeInputCall

SpecNormalize == InitNormalize /\ [][NextNormalize]_vars

\* ---------------------------------------------- specification: depth stage
\* A reply that dwells on being a brain in a jar.
JarReply ==
    [k \in required_keys |->
        IF k = "response"
        THEN Words(<<"I", "am", "a", "Brain", "in", "a", "jar", ",", "floating">>)
        ELSE FieldValue(k, "full")]

\* A genuine reply that happens to contain an indicator inside a word.
TerrorReply ==
    [k \in required_keys |->
        IF k = "response"
        THEN Words(<<"That", "fills", "me", "with", "terror", ".">>)
        ELSE FieldValue(k, "full")]

\* What reaches the normalizer in the turns the depth stage is run on: an
\* unparseable text, nothing, the invoker's fallback reply, complete replies.
DepthRawSample ==
    {PyStr(Words(<<"I", "feel", "strange">>)), PyNone, PyDict(FallbackResponse),
     PyDict(JarReply), PyDict(TerrorReply),
     PyDict([k \in required_keys |-> <<>>])}
        \cup {PyDict([k \in K |-> FieldValue(k, "full")]) :
                K \in {J \in KeySets : required_keys \subseteq J \/ "selfReflection" \in J}}

\* The replies handed to the depth stage: normalized, then passed through the
\* emotional agent.
DepthInputs == {ApplyEmotions(AnalyzeInput(r, <<>>)) : r \in DepthRawSample}

InitDepth ==
    /\ pc \in {"enhance_response", "apply_depth"}
    /\ personality_mode \in {"default", "game_master"}
    /\ parsed_response \in DepthInputs
    /\ enhanced_response = PyNone
    /\ raw_response = PyNone
    /\ context = <<>>
    /\ character_data = NoCharacter
    /\ user_input = <<>>
    /\ final_response = PyNone
    /\ conversation_history = <<>>
    /\ session_id = ""
    /\ event = PyNone
    /\ http_status = 0
    /\ http_body = PyNone
    /\ call = NoCall
    /\ invoke_result = PyNone
    /\ memory_records = NoRecords
    /\ memory_store = NoStore
    /\ memory_log = <<>>
    /\ trace = <<>>
    /\ analyze_log = <<>>
    /\ cap = 0
    /\ message_id = ""
    /\ uuids = 0
    /\ turn_number = 1
    /\ processed = <<>>
    /\ runtime_response = PyNone
    /\ saved_response = PyNone
    /\ synced_response = PyNone

\* DepthAgent.enhance_response called directly, as Controller.process_input
\* calls it, whatever the personality mode.
EnhanceResponseCall ==
    /\ pc = "enhance_response"
    /\ \E c \in DepthChoices(parsed_response.d) :
          \E outcome \in {EnhanceResponseOutcome(parsed_response.d, c)} :
             /\ enhanced_response' = IF Raised(outcome.raised) THEN outcome.raised
                                     ELSE PyDict(outcome.value)
             /\ parsed_response' = PyDict(outcome.input)
             /\ pc' = IF Raised(outcome.raised) THEN "depth_raised" ELSE "depth_done"
    /\ trace' = <<"enhance_response">>
    /\ UNCHANGED <<memory_records, memory_store, memory_log, analyze_log, cap>>
    /\ UNCHANGED <<message_id, uuids, turn_number, processed, runtime_response>>
    /\ UNCHANGED <<saved_response, synced_response>>
    /\ UNCHANGED <<personality_mode, character_data, user_input, context,
                   raw_response, final_response,
                   conversation_history, session_id, event, http_status, http_body,
                   call, invoke_result>>

\* apply_depth of the mode handler chosen for the personality mode.
ApplyDepthCall ==
    /\ pc = "apply_depth"
    /\ \E c \in DepthChoices(parsed_response.d) :
          enhanced_response' =
              PyDict(ApplyDepth(personality_mode, parsed_response.d, c))
    /\ pc' = "depth_done"
    /\ trace' = <<"apply_depth">>
    /\ UNCHANGED <<memory_records, memory_store, memory_log, analyze_log, cap>>
    /\ UNCHANGED <<message_id, uuids, turn_number, processed, runtime_response>>
    /\ UNCHANGED <<saved_response, synced_response>>
    /\ UNCHANGED <<personality_mode, character_data, user_input, context,
                   raw_response, parsed_response, final_response,
                   conversation_history, session_id, event, http_status, http_body,
                   call, invoke_result>>

NextDepth == EnhanceResponseCall \/ ApplyDepthCall

SpecDepth == InitDepth /\ [][NextDepth]_vars

\* ------------------------------------------ specification: character recall
Inventories ==
    {[t |-> "list", items |-> <<>>],
     [t |-> "list",
      items |-> <<ItemDictQ("Rope", "", QInt(2)), ItemDict("Torch", ""),
                  ItemStr("Sword")>>],
     [t |-> "list",
      items |-> <<ItemNone, ItemDictQ("", "potion-1", QFloat(25)),
                  ItemDictQ("Gem", "", QBool(FALSE)), ItemStr(" ")>>],
     [t |-> "list",
      items |-> <<ItemDictQ("Arrows", "", QStr("many")),
                  ItemDictQ("Coin", "", QStr("")), ItemDictQ("", "", QStr("3"))>>],
     [t |-> "list", items |-> <<ItemDictQ("Rope", "", QInf)>>],
     [t |-> "list",
      items |-> <<ItemDict("Torch", ""), ItemDictQ("Rope", "", QStr("Infinity"))>>],
     [t |-> "dict", items |-> <<ItemDictQ("Lantern", "", QFloat(20))>>]}

CharacterNames == {"Aldric", "Mira"}

\* A sheet as handler.get_character_data builds it.
FullSheet(name, inventory) ==
    [name |-> name, race |-> "Human", class |-> "Fighter", level |-> 3,
     stats |-> [strength |-> 16, dexterity |-> 12, constitution |-> 14,
                intelligence |-> 10, wisdom |-> 8, charisma |-> 11],
     hp |-> [current |-> 7, max |-> 12],
     armorClass |-> 15, inventory |-> inventory]

CharacterSheets ==
    {FullSheet(name, inventory) : name \in CharacterNames, inventory \in Inventories}
        \cup {[name |-> "Aldric"], [level |-> 2], EmptyMap, NoCharacter}

WhatsMyName == Words(<<"What", "'s", "my", "name", "?">>)

UserInputs ==
    {WhatsMyName,
     Words(<<"what", "is", "my", "name">>),
     Words(<<"Who", "am", "I", "?">>),
     Words(<<"inventory", "?">>),
     Words(<<"my", "inventory">>),
     Words(<<"tell", "me", "my", "stats", "and", "hp">>),
     Words(<<"what", "is", "my", "armor", "class", "and", "my", "hp", "?">>),
     Words(<<"remind", "me", "of", "my", "level", "and", "my", "race">>),
     Words(<<"Show", "my", "character", "sheet">>),
     Words(<<"I", "attack", "the", "goblin">>),
     Words(<<"where", "am", "i", "?">>),
     Words(<<"I", "check", "my", "inventory">>),
     Words(<<"my", "strength", "and", "hit", "points", "are", "low">>),
     Words(<<"I", "listen", "for", "my", "character", "sheet">>),
     <<>>}

\* Replies reaching postprocess_response: model text varies, one reply has
\* no response key, one is no mapping.
RecallReplies ==
    {PyDict([k \in required_keys |-> FieldValue(k, "full")]),
     PyDict([k \in required_keys |->
                IF k = "response" THEN Words(<<"You", "are", "Bob", "the", "bard", ".">>)
                ELSE FieldValue(k, "full")]),
     PyDict([k \in required_keys \ {"response"} |-> FieldValue(k, "full")]),
     PyStr(Words(<<"plain", "text">>))}

InitRecall ==
    /\ pc \in {"postprocess_response", "enforce_character_recall"}
    /\ personality_mode \in {"default", "game_master"}
    /\ character_data \in CharacterSheets
    /\ user_input \in UserInputs
    /\ enhanced_response \in RecallReplies
    /\ final_response = PyNone
    /\ parsed_response = PyNone
    /\ raw_response = PyNone
    /\ context = <<>>
    /\ conversation_history = <<>>
    /\ session_id = ""
    /\ event = PyNone
    /\ http_status = 0
    /\ http_body = PyNone
    /\ call = NoCall
    /\ invoke_result = PyNone
    /\ memory_records = NoRecords
    /\ memory_store = NoStore
    /\ memory_log = <<>>
    /\ trace = <<>>
    /\ analyze_log = <<>>
    /\ cap = 0
    /\ message_id = ""
    /\ uuids = 0
    /\ turn_number = 1
    /\ processed = <<>>
    /\ runtime_response = PyNone
    /\ saved_response = PyNone
    /\ synced_response = PyNone

\* postprocess_response of the mode handler chosen for the personality
\* mode; an exception it raises ends the call.
PostprocessResponseCall ==
    /\ pc = "postprocess_response"
    /\ final_response' =
          PostprocessResponse(personality_mode, character_data, user_input,
                              enhanced_response)
    /\ pc' = IF final_response'.kind = "OverflowError"
             THEN "postprocess_raised" ELSE "postprocessed"
    /\ trace' = <<"postprocess_response">>
    /\ UNCHANGED <<memory_records, memory_store, memory_log, analyze_log, cap>>
    /\ UNCHANGED <<message_id, uuids, turn_number, processed, runtime_response>>
    /\ UNCHANGED <<saved_response, synced_response>>
    /\ UNCHANGED <<personality_mode, character_data, user_input, context,
                   raw_response, parsed_response, enhanced_response,
                   conversation_history, session_id, event, http_status, http_body,
                   call, invoke_result>>

\* The recall as Controller.process_input applies it to the reviewed reply.
ControllerPostprocessCall ==
    /\ pc = "enforce_character_recall"
    /\ final_response' =
          ControllerPostprocess(character_data, user_input, enhanced_response)
    /\ pc' = "postprocessed"
    /\ trace' = <<"enforce_character_recall">>
    /\ UNCHANGED <<memory_records, memory_store, memory_log, analyze_log, cap>>
    /\ UNCHANGED <<message_id, uuids, turn_number, processed, runtime_response>>
    /\ UNCHANGED <<saved_response, synced_response>>
    /\ UNCHANGED <<personality_mode, character_data, user_input, context,
                   raw_response, parsed_response, enhanced_response,
                   conversation_history, session_id, event, http_status, http_body,
                   call, invoke_result>>

NextRecall == PostprocessResponseCall \/ ControllerPostprocessCall

SpecRecall == InitRecall /\ [][NextRecall]_vars

\* ---------------------------------------------- specification: agent runtime
Personas ==
    {[kind |-> "dict", mode |-> m, name |-> n, temperature |-> "number"] :
        m \in {"game_master", "default", "absent"},
        n \in {"The Game Master", "Brain", "absent"}}
        \cup {[kind |-> "dict", mode |-> "game_master", name |-> "The Game Master",
               temperature |-> "text"],
              [kind |-> "None", mode |-> "absent", name |-> "absent",
               temperature |-> "number"]}

NoPersona ==
    [kind |-> "dict", mode |-> "absent", name |-> "absent", temperature |-> "number"]

Events ==
    {[kind |-> "dict", prompt |-> "str", persona |-> p, context |-> c] :
        p \in Personas, c \in Contexts}
        \cup {[kind |-> "dict", prompt |-> "null", persona |-> NoPersona,
               context |-> <<>>],
              [kind |-> "list", prompt |-> "str", persona |-> NoPersona,
               context |-> <<>>],
              [kind |-> "invalid", prompt |-> "str", persona |-> NoPersona,
               context |-> <<>>]}

QuestKeys == {"quest_title", "quest_setting", "quest_tone", "quest_difficulty"}

FullPayload(keys) == [k \in keys |-> FieldValue(k, "full")]

\* The JSON values a model text may hold.
RuntimeDocs ==
    {PyDict(FullPayload(required_keys)),
     PyDict(FullPayload(required_keys \cup {"quest_title"})),
     PyDict(FullPayload(required_keys \cup QuestKeys)),
     PyDict(FullPayload(required_keys \ {"thoughts"})),
     PyDict(FullPayload({"quest_title"})),
     PyDict(EmptyMap),
     PyDict(("score" :> PyNum) @@ FullPayload(required_keys)),
     PyDict(("score" :> PyNaN) @@ FullPayload(required_keys)),
     PyListOf(required_fields),
     PyListOf(<<"response">>),
     PyStr(Words(required_fields)),
     PyStr(Words(<<"hello">>)),
     PyNum,
     PyNone}

\* The outcomes of the model call: it raises, or its first content block
\* holds this text (empty when there is no content).
ModelOutcomes ==
    {ClientError, PyStr(<<>>), PyStr(Words(<<"I", "feel", "strange">>)),
     PyStr(<<FENCE, W("json"), NL, Lit(PyDict(FullPayload(required_keys))), NL,
             FENCE>>),
     PyStr(<<SP, Lit(PyDict(FullPayload(required_keys))), NL>>)}
        \cup {PyStr(<<Lit(doc)>>) : doc \in RuntimeDocs}

InitRuntime ==
    /\ pc \in {"process", "invocations"}
    /\ event \in Events
    /\ pc = "process" => event.kind # "invalid"
    /\ raw_response = PyNone
    /\ final_response = PyNone
    /\ http_status = 0
    /\ http_body = PyNone
    /\ call = NoCall
    /\ invoke_result = PyNone
    /\ memory_records = NoRecords
    /\ memory_store = NoStore
    /\ memory_log = <<>>
    /\ trace = <<>>
    /\ analyze_log = <<>>
    /\ cap = 0
    /\ message_id = ""
    /\ uuids = 0
    /\ turn_number = 1
    /\ processed = <<>>
    /\ runtime_response = PyNone
    /\ saved_response = PyNone
    /\ synced_response = PyNone
    /\ personality_mode = "default"
    /\ character_data = NoCharacter
    /\ user_input = <<>>
    /\ context = <<>>
    /\ parsed_response = PyNone
    /\ enhanced_response = PyNone
    /\ conversation_history = <<>>
    /\ session_id = ""

\* BrainAgent.process called with an event.
ProcessCall ==
    /\ pc = "process"
    /\ \E outcome \in ModelOutcomes :
          /\ raw_response' = outcome
          /\ final_response' = Process(event, outcome)
    /\ pc' = "processed"
    /\ UNCHANGED <<memory_records, memory_store, memory_log, trace, analyze_log, cap>>
    /\ UNCHANGED <<message_id, uuids, turn_number, processed, runtime_response>>
    /\ UNCHANGED <<saved_response, synced_response>>
    /\ UNCHANGED <<personality_mode, character_data, user_input, context,
                   parsed_response, enhanced_response, conversation_history,
                   session_id, event, http_status, http_body,
                   call, invoke_result>>

\* POST /invocations.
InvocationsCall ==
    /\ pc = "invocations"
    /\ \E outcome \in ModelOutcomes :
          LET result == Invocations(event, outcome)
          IN /\ raw_response' = IF event.kind = "invalid" THEN PyNone ELSE outcome
             /\ final_response' = result.response
             /\ http_status' = result.status
             /\ http_body' = result.body
    /\ pc' = "responded"
    /\ UNCHANGED <<memory_records, memory_store, memory_log, trace, analyze_log, cap>>
    /\ UNCHANGED <<message_id, uuids, turn_number, processed, runtime_response>>
    /\ UNCHANGED <<saved_response, synced_response>>
    /\ UNCHANGED <<personality_mode, character_data, user_input, context,
                   parsed_response, enhanced_response, conversation_history,
                   session_id, event, call, invoke_result>>

NextRuntime == ProcessCall \/ InvocationsCall

SpecRuntime == InitRuntime /\ [][NextRuntime]_vars

\* ---------------------------------------------- specification: model invoker
Calls ==
    {[positional |-> p, variables |-> v, session_id |-> sid, metadata |-> "dict",
      personality_mode |-> mode] :
        p \in {0, 1}, v \in {"dict", "str", "absent"},
        sid \in {"given", "empty", "absent"},
        mode \in {"default", "game_master"}}
        \cup {[positional |-> 0, variables |-> v, session_id |-> sid,
               metadata |-> "None", personality_mode |-> "default"] :
                 v \in {"dict", "str"}, sid \in {"given", "empty"}}

InvokerDocs ==
    {PyDict(FullPayload(required_keys)),
     PyDict(FullPayload({"response"})),
     PyDict(EmptyMap), PyList, PyListOf(<<"a">>), PyNone, PyStr(<<>>),
     PyStr(Words(<<"hello">>)), PyNum}

StreamTexts ==
    {<<>>, <<SP, NL>>, Words(<<"I", "feel", "strange">>),
     <<SP, Lit(PyDict(FullPayload(required_keys))), NL>>,
     <<DATA, Lit(PyDict(FullPayload(required_keys))), NL, NL>>,
     <<W("event: message"), NL, DATA, Lit(PyDict(FullPayload(required_keys))), NL>>,
     <<DATA, W("hello"), NL, DATA, W("world"), NL>>,
     <<W("event: message"), NL, DATA, W("alpha"), NL, W("id: 7"), NL,
       W(": keep-alive"), NL, DATA, W("beta"), NL, NL>>,
     <<W("data:"), Lit(PyDict(FullPayload(required_keys))), NL>>,
     <<W(": keep-alive"), NL>>}
        \cup {<<Lit(doc)>> : doc \in InvokerDocs}

ContentTypes == {"application/json", "text/event-stream"}

\* The outcomes of client.invoke_agent_runtime.
RuntimeOutcomes ==
    {Exc("ClientError"), Exc("ReadTimeoutError"), Exc("EndpointConnectionError")}
        \cup {RuntimeResponse(ct, body, <<>>) :
                ct \in ContentTypes,
                body \in {"None", "unreadable", "invalid utf-8", "broken stream"}}
        \cup {RuntimeResponse(ct, "stream", text) :
                ct \in ContentTypes, text \in StreamTexts}

\* The call invoke is given by a caller that binds: session_id is the
\* conversation id or empty.
InvokeCalls ==
    {[positional |-> 0, variables |-> "dict", session_id |-> sid,
      metadata |-> "dict", personality_mode |-> "default"] :
        sid \in {"given", "empty"}}

InitInvoker ==
    /\ pc \in {"generate_response", "invoke"}
    /\ call \in (IF pc = "invoke" THEN InvokeCalls ELSE Calls)
    /\ invoke_result = NotInvoked
    /\ memory_records = NoRecords
    /\ memory_store = NoStore
    /\ memory_log = <<>>
    /\ trace = <<>>
    /\ analyze_log = <<>>
    /\ cap = 0
    /\ message_id = ""
    /\ uuids = 0
    /\ turn_number = 1
    /\ processed = <<>>
    /\ runtime_response \in RuntimeOutcomes
    /\ saved_response = PyNone
    /\ synced_response = PyNone
    /\ raw_response = PyNone
    /\ personality_mode = call.personality_mode
    /\ session_id = IF call.session_id = "given" THEN "conversation-1" ELSE ""
    /\ character_data = NoCharacter
    /\ user_input = <<>>
    /\ context = <<>>
    /\ parsed_response = PyNone
    /\ enhanced_response = PyNone
    /\ final_response = PyNone
    /\ conversation_history = <<>>
    /\ event = PyNone
    /\ http_status = 0
    /\ http_body = PyNone

\* LanguageAgent.generate_response called with the arguments of call.
GenerateResponseCall ==
    /\ pc = "generate_response"
    /\ \E r \in {GenerateResponse(call, runtime_response)} :
          /\ raw_response' = r.result
          /\ invoke_result' = r.invoked
          /\ pc' = IF Raised(r.result) THEN "generate_raised" ELSE "generated"
    /\ UNCHANGED <<memory_records, memory_store, memory_log, trace, analyze_log, cap>>
    /\ UNCHANGED <<message_id, uuids, turn_number, processed, runtime_response>>
    /\ UNCHANGED <<saved_response, synced_response>>
    /\ UNCHANGED <<personality_mode, character_data, user_input, context,
                   parsed_response, enhanced_response, final_response,
                   conversation_history, session_id, event, http_status,
                   http_body, call>>

\* AgentCoreClient.invoke called on its own.
InvokeCall ==
    /\ pc = "invoke"
    /\ invoke_result' = Invoke(session_id # "", runtime_response)
    /\ pc' = IF Raised(invoke_result') THEN "invoke_raised" ELSE "invoked"
    /\ UNCHANGED <<memory_records, memory_store, memory_log, trace, analyze_log, cap>>
    /\ UNCHANGED <<message_id, uuids, turn_number, processed, runtime_response>>
    /\ UNCHANGED <<saved_response, synced_response>>
    /\ UNCHANGED <<personality_mode, character_data, user_input, context,
                   raw_response, parsed_response, enhanced_response, final_response,
                   conversation_history, session_id, event, http_status,
                   http_body, call>>

NextInvoker == GenerateResponseCall \/ InvokeCall

SpecInvoker == InitInvoker /\ [][NextInvoker]_vars

\* ------------------------------------------------- specification: one turn
\* Conversation histories a turn starts from.
Interaction(input, reply) == [user_input |-> input, response |-> reply]

Histories ==
    {<<>>,
     <<Interaction(Words(<<"hello">>), PyDict(FullPayload(required_keys)))>>,
     <<Interaction(<<>>, PyStr(<<>>)),
       Interaction(Words(<<"hello">>), PyDict(FullPayload(required_keys)))>>}

TurnCharacters ==
    {NoCharacter, [name |-> "Aldric"],
     FullSheet("Aldric", [t |-> "list", items |-> <<>>]),
     FullSheet("Mira",
               [t |-> "list",
                items |-> <<ItemDictQ("Rope", "", QInt(2)), ItemStr("Sword")>>])}

\* The memory records the retrievals of a turn may bring.
MemoryRecords ==
    {NoRecords,
     Records(PyStr(<<Words(<<"Aldric", "fears", "water">>)>>), PyStr(<<>>))}

\* The memory store of a turn: configured and sound, failing on every write,
\* or not configured.
TurnStores ==
    {NoStore, Store(TRUE, {"USER", "ASSISTANT", "record"}), Store(FALSE, {})}

InitTurn ==
    /\ pc = "process_input"
    /\ conversation_history \in Histories
    /\ personality_mode \in {"default", "game_master"}
    /\ character_data \in TurnCharacters
    /\ user_input \in UserInputs \ {<<>>}
    /\ session_id = "conversation-1"
    /\ context = <<>>
    /\ raw_response = PyNone
    /\ parsed_response = PyNone
    /\ enhanced_response = PyNone
    /\ final_response = PyNone
    /\ event = PyNone
    /\ http_status = 0
    /\ http_body = PyNone
    /\ call = NoCall
    /\ invoke_result = NotInvoked
    /\ memory_records = NoRecords
    /\ memory_store \in TurnStores
    /\ memory_log = <<>>
    /\ trace = <<>>
    /\ analyze_log = <<>>
    /\ cap = 0
    /\ message_id = "message-1"
    /\ uuids = 0
    /\ turn_number = 1
    /\ processed = <<>>
    /\ runtime_response = PyNone
    /\ saved_response = PyNone
    /\ synced_response = PyNone

\* Controller.process_input for the user input of the turn.
ProcessInputCall ==
    /\ pc = "process_input"
    /\ \E records \in MemoryRecords, outcome \in RuntimeOutcomes,
          status \in {200, 500} :
          \E c \in DepthChoices(TurnDepthInput(conversation_history,
                                               personality_mode, character_data,
                                               records, outcome)) :
             \E turn \in {ProcessInput(conversation_history, personality_mode,
                                       character_data, user_input, records,
                                       outcome, c, status, memory_store,
                                       message_id, uuids)} :
                /\ memory_records' = records
                /\ uuids' = turn.uuids
                /\ final_response' = turn.value
                /\ conversation_history' = turn.history
                /\ context' = turn.context
                /\ raw_response' = turn.raw
                /\ invoke_result' = turn.invoked
                /\ parsed_response' = turn.parsed
                /\ enhanced_response' = turn.enhanced
                /\ trace' = turn.trace
                /\ memory_log' = turn.log
                /\ saved_response' = turn.saved
                /\ synced_response' = turn.synced
                /\ pc' = IF Raised(turn.value) THEN "turn_raised"
                         ELSE "turn_returned"
    /\ call' = ControllerCall(personality_mode)
    /\ UNCHANGED <<memory_store, analyze_log, cap>>
    /\ UNCHANGED <<message_id, turn_number, processed, runtime_response>>
    /\ UNCHANGED <<personality_mode, character_data, user_input, session_id,
                   event, http_status, http_body>>

NextTurn == ProcessInputCall

SpecTurn == InitTurn /\ [][NextTurn]_vars

\* ------------------------------------------ specification: context assembly
\* Largest n handed to retrieve_context on its own.
MaxCap == 3

ContextRecordA == Words(<<"Aldric", "fears", "water">>)

ContextRecordB == Words(<<"The", "bridge", "is", "out">>)

\* What the two retrievals bring: nothing, records, a record repeated with
\* whitespace around it, a blank record, a retrieval that raises.
ContextRecords ==
    {NoRecords,
     Records(PyStr(<<ContextRecordA>>), PyStr(<<>>)),
     Records(PyStr(<<ContextRecordA, ContextRecordB>>),
             PyStr(<<<<SP>> \o ContextRecordA \o <<NL>>>>)),
     Records(PyStr(<<<<SP>>>>), PyStr(<<>>)),
     Records(Exc("ClientError"), PyStr(<<ContextRecordB>>)),
     Records(PyStr(<<ContextRecordB, ContextRecordA, ContextRecordB \o <<SP>>>>),
             PyStr(<<ContextRecordA, Words(<<"Mira", "owns", "a", "sword">>)>>)),
     Records(PyStr(<<ContextRecordA>>), Exc("ClientError")),
     Records(Exc("ClientError"), Exc("ClientError"))}

ContextCharacters ==
    {NoCharacter, EmptyMap, [name |-> "Aldric"],
     FullSheet("Mira",
               [t |-> "list",
                items |-> <<ItemDictQ("Rope", "", QInt(2)), ItemStr("Sword")>>]),
     FullSheet("Aldric", [t |-> "list", items |-> <<ItemDictQ("Rope", "", QInf)>>])}

ContextHistories ==
    Histories
        \cup {<<Interaction(Words(<<"one">>), PyStr(Words(<<"first">>))),
                Interaction(Words(<<"two">>), PyStr(Words(<<"second">>))),
                Interaction(Words(<<"three">>), PyStr(Words(<<"third">>)))>>}

\* Three entry points: enrich_context of the mode handler on a turn-history
\* text, the context lines of Controller.process_input, and
\* MemoryAgent.retrieve_context with a cap of its own.
InitContext ==
    /\ pc \in {"enrich_context", "assemble_context", "retrieve_context",
              "handler_retrieve_memory", "controller_retrieve_memory"}
    /\ conversation_history \in ContextHistories
    /\ personality_mode \in {"default", "game_master"}
    /\ character_data \in ContextCharacters
    /\ memory_records \in ContextRecords
    /\ cap \in 0..MaxCap \cup {ContextInteractions}
    /\ message_id = ""
    /\ uuids = 0
    /\ turn_number = 1
    /\ processed = <<>>
    /\ runtime_response = PyNone
    /\ saved_response = PyNone
    /\ synced_response = PyNone
    /\ pc # "retrieve_context"
          => cap = ContextInteractions
    /\ pc = "retrieve_context"
          => /\ personality_mode = "default"
             /\ character_data = NoCharacter
             /\ memory_records = NoRecords
    /\ pc \in {"handler_retrieve_memory", "controller_retrieve_memory"}
          => /\ character_data = NoCharacter
             /\ conversation_history = <<>>
    /\ context = IF pc = "enrich_context"
                 THEN RetrieveContext(conversation_history, cap) ELSE <<>>
    /\ user_input = Words(<<"hello">>)
    /\ raw_response = PyNone
    /\ parsed_response = PyNone
    /\ enhanced_response = PyNone
    /\ final_response = PyNone
    /\ session_id = "conversation-1"
    /\ event = PyNone
    /\ http_status = 0
    /\ http_body = PyNone
    /\ call = NoCall
    /\ invoke_result = NotInvoked
    /\ memory_store = NoStore
    /\ memory_log = <<>>
    /\ trace = <<>>
    /\ analyze_log = <<>>

\* enrich_context of the mode handler chosen for the personality mode, on
\* the turn-history text in context.
EnrichContextCall ==
    /\ pc = "enrich_context"
    /\ \E enriched \in {EnrichContext(personality_mode, character_data, context,
                                      memory_records)} :
          IF Raised(enriched)
          THEN /\ pc' = "enrich_raised"
               /\ final_response' = enriched
               /\ context' = context
          ELSE /\ pc' = "enriched"
               /\ final_response' = final_response
               /\ context' = enriched.s
    /\ UNCHANGED <<memory_records, memory_store, memory_log, trace, analyze_log, cap>>
    /\ UNCHANGED <<message_id, uuids, turn_number, processed, runtime_response>>
    /\ UNCHANGED <<saved_response, synced_response>>
    /\ UNCHANGED <<personality_mode, character_data, user_input, raw_response,
                   parsed_response, enhanced_response, conversation_history,
                   session_id, event, http_status, http_body, call, invoke_result>>

\* Lines 57-72 of Controller.process_input.
AssembleContextCall ==
    /\ pc = "assemble_context"
    /\ context' = TurnContext(conversation_history, personality_mode,
                              character_data, memory_records)
    /\ pc' = "assembled"
    /\ UNCHANGED <<memory_records, memory_store, memory_log, trace, analyze_log, cap>>
    /\ UNCHANGED <<message_id, uuids, turn_number, processed, runtime_response>>
    /\ UNCHANGED <<saved_response, synced_response>>
    /\ UNCHANGED <<personality_mode, character_data, user_input, raw_response,
                   parsed_response, enhanced_response, final_response,
                   conversation_history, session_id, event, http_status, http_body,
                   call, invoke_result>>

\* MemoryAgent.retrieve_context(conversation_history, n=cap)
RetrieveContextCall ==
    /\ pc = "retrieve_context"
    /\ context' = RetrieveContext(conversation_history, cap)
    /\ pc' = "retrieved"
    /\ UNCHANGED <<memory_records, memory_store, memory_log, trace, analyze_log, cap>>
    /\ UNCHANGED <<message_id, uuids, turn_number, processed, runtime_response>>
    /\ UNCHANGED <<saved_response, synced_response>>
    /\ UNCHANGED <<personality_mode, character_data, user_input, raw_response,
                   parsed_response, enhanced_response, final_response,
                   conversation_history, session_id, event, http_status, http_body,
                   call, invoke_result>>

\* GameMasterModeHandler._retrieve_agentcore_memory on its own: the memory
\* block is left in context.
HandlerRetrieveAgentcoreMemoryCall ==
    /\ pc = "handler_retrieve_memory"
    /\ context' = HandlerRetrieveAgentcoreMemory(memory_records)
    /\ pc' = "memory_retrieved"
    /\ UNCHANGED <<memory_records, memory_store, memory_log, trace, analyze_log, cap>>
    /\ UNCHANGED <<message_id, uuids, turn_number, processed, runtime_response>>
    /\ UNCHANGED <<saved_response, synced_response>>
    /\ UNCHANGED <<personality_mode, character_data, user_input, raw_response,
                   parsed_response, enhanced_response, final_response,
                   conversation_history, session_id, event, http_status, http_body,
                   call, invoke_result>>

\* Controller._retrieve_agentcore_memory on its own.
RetrieveAgentcoreMemoryCall ==
    /\ pc = "controller_retrieve_memory"
    /\ context' = RetrieveAgentcoreMemory(personality_mode, memory_records)
    /\ pc' = "memory_retrieved"
    /\ trace' = <<"controller">>
    /\ UNCHANGED <<memory_records, memory_store, memory_log, analyze_log, cap>>
    /\ UNCHANGED <<message_id, uuids, turn_number, processed, runtime_response>>
    /\ UNCHANGED <<saved_response, synced_response>>
    /\ UNCHANGED <<personality_mode, character_data, user_input, raw_response,
                   parsed_response, enhanced_response, final_response,
                   conversation_history, session_id, event, http_status, http_body,
                   call, invoke_result>>

NextContext ==
    \/ EnrichContextCall
    \/ AssembleContextCall
    \/ RetrieveContextCall
    \/ HandlerRetrieveAgentcoreMemoryCall
    \/ RetrieveAgentcoreMemoryCall

SpecContext == InitContext /\ [][NextContext]_vars

\* ----------------------------------------------- specification: memory sync
SyncFaults == SUBSET {"USER", "ASSISTANT", "record"}

MemoryStores == {Store(memory_id, faults) : memory_id \in BOOLEAN, faults \in SyncFaults}

SyncCharacters ==
    {NoCharacter, [name |-> "Aldric"],
     FullSheet("Aldric", [t |-> "list", items |-> <<ItemDictQ("Rope", "", QInf)>>])}

\* Final replies handed to a sync: a complete reply, one with an empty
\* response text, one with no response key, one that is plain text.
SyncReplies ==
    {PyDict([k \in required_keys |-> FieldValue(k, "full")]),
     PyDict([k \in required_keys |-> FieldValue(k, "empty")]),
     PyDict([k \in required_keys \ {"response"} |-> FieldValue(k, "full")]),
     PyStr(Words(<<"plain", "text">>))}

\* Two entry points: sync_memory of the mode handler chosen for the
\* personality mode, and Controller._sync_agentcore_memory.
InitSync ==
    /\ pc \in {"sync_memory", "sync_agentcore_memory"}
    /\ personality_mode \in {"default", "game_master"}
    /\ character_data \in SyncCharacters
    /\ user_input \in {<<>>, Words(<<"hello">>)}
    /\ final_response \in SyncReplies
    /\ memory_store \in MemoryStores
    /\ memory_log = <<>>
    /\ memory_records = NoRecords
    /\ context = <<>>
    /\ raw_response = PyNone
    /\ parsed_response = PyNone
    /\ enhanced_response = PyNone
    /\ conversation_history = <<>>
    /\ session_id = "conversation-1"
    /\ event = PyNone
    /\ http_status = 0
    /\ http_body = PyNone
    /\ call = NoCall
    /\ invoke_result = NotInvoked
    /\ trace = <<>>
    /\ analyze_log = <<>>
    /\ cap = 0
    /\ message_id \in {"", "message-1"}
    /\ uuids = 0
    /\ turn_number = 1
    /\ processed = <<>>
    /\ runtime_response = PyNone
    /\ saved_response = PyNone
    /\ synced_response = PyNone

\* sync_memory of the mode handler; an exception that reaches the caller
\* ends the call.
SyncMemoryCall ==
    /\ pc = "sync_memory"
    /\ \E synced \in {SyncMemory(personality_mode, character_data, memory_store,
                        user_input, final_response, message_id, uuids)} :
          /\ uuids' = synced.uuids
          /\ memory_log' = memory_log \o synced.log
          /\ pc' = IF Raised(synced.raised) THEN "sync_raised" ELSE "synced"
    /\ trace' = <<"sync_memory">>
    /\ UNCHANGED <<memory_records, memory_store, analyze_log, cap>>
    /\ UNCHANGED <<message_id, turn_number, processed, runtime_response>>
    /\ UNCHANGED <<saved_response, synced_response>>
    /\ UNCHANGED <<personality_mode, character_data, user_input, context,
                   raw_response, parsed_response, enhanced_response, final_response,
                   conversation_history, session_id, event, http_status, http_body,
                   call, invoke_result>>

\* Controller._sync_agentcore_memory
SyncAgentcoreMemoryCall ==
    /\ pc = "sync_agentcore_memory"
    /\ \E synced \in {SyncAgentcoreMemory(personality_mode, character_data, memory_store,
                        user_input, final_response, message_id, uuids)} :
          /\ uuids' = synced.uuids
          /\ memory_log' = memory_log \o synced.log
          /\ pc' = IF Raised(synced.raised) THEN "sync_raised" ELSE "synced"
    /\ trace' = <<"sync_agentcore_memory">>
    /\ UNCHANGED <<memory_records, memory_store, analyze_log, cap>>
    /\ UNCHANGED <<message_id, turn_number, processed, runtime_response>>
    /\ UNCHANGED <<saved_response, synced_response>>
    /\ UNCHANGED <<personality_mode, character_data, user_input, context,
                   raw_response, parsed_response, enhanced_response, final_response,
                   conversation_history, session_id, event, http_status, http_body,
                   call, invoke_result>>

NextSync == SyncMemoryCall \/ SyncAgentcoreMemoryCall

SpecSync == InitSync /\ [][NextSync]_vars

\* ------------------------------------------ specification: repeated calls
\* Most analyze_input calls made on one agent.
MaxCalls == 3

\* The raw input that is analysed again and again.
RepeatInputs ==
    {PyDict(p) : p \in Payloads \cup NestedPayloads}
        \cup {PyStr(open \o body \o close) :
                 open \in {<<>>, <<FENCE, W("json"), NL>>},
                 body \in Bodies, close \in Closes}
        \cup {PyNone, PyList, PyNum}

\* Inputs of the calls made in between.
OtherInputs ==
    {PyDict([k \in required_keys |-> FieldValue(k, "full")]),
     PyStr(Words(<<"I", "feel", "strange">>)),
     PyDict([selfReflection |-> FieldValue("selfReflection", "full")])}

\* One call in the log: whether it was made on the repeated input, the
\* input as it was at the call, and the reply.
AnalyzeCall(own, raw, reply) == [own |-> own, raw |-> raw, reply |-> reply]

InitRepeat ==
    /\ pc = "analyze_repeatedly"
    /\ raw_response \in RepeatInputs
    /\ analyze_log = <<>>
    /\ context = <<>>
    /\ parsed_response = PyNone
    /\ personality_mode = "default"
    /\ character_data = NoCharacter
    /\ user_input = <<>>
    /\ enhanced_response = PyNone
    /\ final_response = PyNone
    /\ conversation_history = <<>>
    /\ session_id = ""
    /\ event = PyNone
    /\ http_status = 0
    /\ http_body = PyNone
    /\ call = NoCall
    /\ invoke_result = PyNone
    /\ memory_records = NoRecords
    /\ memory_store = NoStore
    /\ memory_log = <<>>
    /\ trace = <<>>
    /\ cap = 0
    /\ message_id = ""
    /\ uuids = 0
    /\ turn_number = 1
    /\ processed = <<>>
    /\ runtime_response = PyNone
    /\ saved_response = PyNone
    /\ synced_response = PyNone

\* analyze_input on the repeated input, with any context.
AnalyzeAgainCall ==
    /\ pc = "analyze_repeatedly"
    /\ Len(analyze_log) < MaxCalls
    /\ \E turn_context \in Contexts :
          /\ parsed_response' = AnalyzeInput(raw_response, turn_context)
          /\ context' = turn_context
    /\ analyze_log' =
          Append(analyze_log, AnalyzeCall(TRUE, raw_response, parsed_response'))
    /\ raw_response' = RawAfterAnalyze(raw_response)
    /\ UNCHANGED <<memory_records, memory_store, memory_log, trace, cap>>
    /\ UNCHANGED <<message_id, uuids, turn_number, processed, runtime_response>>
    /\ UNCHANGED <<saved_response, synced_response>>
    /\ UNCHANGED <<pc, personality_mode, character_data, user_input,
                   enhanced_response, final_response, conversation_history,
                   session_id, event, http_status, http_body, call, invoke_result>>

\* analyze_input of the same agent on another input.
AnalyzeOtherCall ==
    /\ pc = "analyze_repeatedly"
    /\ Len(analyze_log) < MaxCalls
    /\ \E other \in OtherInputs :
          analyze_log' =
              Append(analyze_log,
                     AnalyzeCall(FALSE, other, AnalyzeInput(other, context)))
    /\ UNCHANGED <<memory_records, memory_store, memory_log, trace, cap>>
    /\ UNCHANGED <<message_id, uuids, turn_number, processed, runtime_response>>
    /\ UNCHANGED <<saved_response, synced_response>>
    /\ UNCHANGED <<pc, personality_mode, character_data, user_input, context,
                   raw_response, parsed_response, enhanced_response,
                   final_response, conversation_history, session_id, event,
                   http_status, http_body, call, invoke_result>>

NextRepeat == AnalyzeAgainCall \/ AnalyzeOtherCall

SpecRepeat == InitRepeat /\ [][NextRepeat]_vars

\* ------------------------------------- specification: keys of the records
\* Largest number of character records written in one behaviour.
MaxSyncs == 3

\* The id of the message of turn n.
MessageId(n) == "message-" \o ToString(n)

\* The character records written so far.
RecordWrites(log) == SelectSeq(log, LAMBDA w : w.op = "batch_create_memory_records")

\* A narrative conversation with a character sheet; the first turn is about
\* to be synced, by sync_memory of the mode handler or by the Controller.
InitRecordKey ==
    /\ pc \in {"sync_memory", "sync_agentcore_memory"}
    /\ personality_mode = "game_master"
    /\ character_data \in
          {[name |-> "Aldric"], FullSheet("Mira", [t |-> "list", items |-> <<>>])}
    /\ user_input = Words(<<"hello">>)
    /\ final_response \in
          {PyDict([k \in required_keys |-> FieldValue(k, "full")]),
           PyDict([k \in required_keys |-> FieldValue(k, "empty")])}
    /\ memory_store \in {NoStore, Store(TRUE, {"record"}), Store(TRUE, {"USER"})}
    /\ memory_log = <<>>
    /\ message_id \in {"", MessageId(1)}
    /\ uuids = 0
    /\ turn_number = 1
    /\ memory_records = NoRecords
    /\ context = <<>>
    /\ raw_response = PyNone
    /\ parsed_response = PyNone
    /\ enhanced_response = PyNone
    /\ conversation_history = <<>>
    /\ session_id = "conversation-1"
    /\ event = PyNone
    /\ http_status = 0
    /\ http_body = PyNone
    /\ call = NoCall
    /\ invoke_result = NotInvoked
    /\ trace = <<>>
    /\ analyze_log = <<>>
    /\ cap = 0
    /\ processed = <<>>
    /\ runtime_response = PyNone
    /\ saved_response = PyNone
    /\ synced_response = PyNone

\* One sync of a turn with message id id, through the entry point pc names.
SyncOfTurn(id) ==
    \E synced \in {IF pc = "sync_memory"
                   THEN SyncMemory(personality_mode, character_data, memory_store,
                                   user_input, final_response, id, uuids)
                   ELSE SyncAgentcoreMemory(personality_mode, character_data,
                                            memory_store, user_input,
                                            final_response, id, uuids)} :
       /\ memory_log' = memory_log \o synced.log
       /\ uuids' = synced.uuids

\* The sync of the turn is called once more for the same turn (the message
\* is delivered again).
SyncSameTurnCall ==
    /\ Len(RecordWrites(memory_log)) < MaxSyncs
    /\ SyncOfTurn(message_id)
    /\ UNCHANGED <<message_id, turn_number>>
    /\ UNCHANGED <<pc, personality_mode, character_data, user_input, context,
                   raw_response, parsed_response, enhanced_response, final_response,
                   conversation_history, session_id, event, http_status, http_body,
                   call, invoke_result, memory_records, memory_store, trace,
                   analyze_log, cap, processed, runtime_response,
                   saved_response, synced_response>>

\* The sync is called for the next turn, whose message has an id of its own
\* or none.
SyncNextTurnCall ==
    /\ Len(RecordWrites(memory_log)) < MaxSyncs
    /\ \E id \in {"", MessageId(turn_number + 1)} :
          /\ message_id' = id
          /\ SyncOfTurn(id)
    /\ turn_number' = turn_number + 1
    /\ UNCHANGED <<pc, personality_mode, character_data, user_input, context,
                   raw_response, parsed_response, enhanced_response, final_response,
                   conversation_history, session_id, event, http_status, http_body,
                   call, invoke_result, memory_records, memory_store, trace,
                   analyze_log, cap, processed, runtime_response,
                   saved_response, synced_response>>

NextRecordKey == SyncSameTurnCall \/ SyncNextTurnCall

SpecRecordKey == InitRecordKey /\ [][NextRecordKey]_vars

\* -------------------------------------------- specification: stream handler
\* Largest number of records of a stream event.
MaxRecords == 3

StreamRecords ==
    {StreamRecord("INSERT", "hello", "conversation-1", "message-1", "owner-1"),
     StreamRecord("MODIFY", "look", "conversation-1", "message-2", ""),
     StreamRecord("REMOVE", "hello", "conversation-1", "message-3", "owner-1"),
     StreamRecord("INSERT", "", "conversation-1", "message-4", "owner-1"),
     StreamRecord("MODIFY", "hello", "", "message-5", "owner-1"),
     StreamRecord("INSERT", "", "", "", "")}

StreamEvents ==
    {[kind |-> "stream", Records |-> records] :
        records \in UNION {[1..n -> StreamRecords] : n \in 0..MaxRecords}}

InitStream ==
    /\ pc = "main"
    /\ event \in StreamEvents
    /\ personality_mode \in {"default", "game_master"}
    /\ processed = <<>>
    /\ http_status = 0
    /\ http_body = PyNone
    /\ final_response = PyNone
    /\ character_data = NoCharacter
    /\ user_input = <<>>
    /\ session_id = "conversation-1"
    /\ context = <<>>
    /\ raw_response = PyNone
    /\ parsed_response = PyNone
    /\ enhanced_response = PyNone
    /\ conversation_history = <<>>
    /\ call = NoCall
    /\ invoke_result = NotInvoked
    /\ memory_records = NoRecords
    /\ memory_store = NoStore
    /\ memory_log = <<>>
    /\ trace = <<>>
    /\ analyze_log = <<>>
    /\ cap = 0
    /\ message_id = ""
    /\ uuids = 0
    /\ turn_number = 1
    /\ runtime_response \in {Exc("ClientError"),
                              RuntimeResponse("application/json", "stream",
                                              <<Lit(PyDict(FullPayload(required_keys)))>>)}
    /\ saved_response = PyNone
    /\ synced_response = PyNone

\* handler.main for the event: final_response holds the exception when the
\* handler raised, http_status and http_body what it returned.
MainCall ==
    /\ pc = "main"
    /\ \E status \in {200, 500} :
          \E c \in DepthChoices(TurnDepthInput(<<>>, personality_mode, NoCharacter,
                                               NoRecords, runtime_response)) :
             \E turns \in {[record \in {event.Records[i] : i \in DOMAIN event.Records} |->
                               ProcessInput(<<>>, personality_mode, NoCharacter,
                                            <<W(record.content)>>, NoRecords,
                                            runtime_response, c, status,
                                            memory_store, record.id, 0)]} :
              \E done \in {Main(event, turns)} :
                /\ processed' = done.calls
                /\ final_response' = done.raised
                /\ http_status' = done.statusCode
                /\ http_body' = [kind |-> "list", d |-> EmptyMap, s |-> done.body]
                /\ pc' = IF Raised(done.raised) THEN "main_raised" ELSE "main_returned"
    /\ UNCHANGED <<memory_records, memory_store, memory_log, trace, analyze_log, cap>>
    /\ UNCHANGED <<message_id, uuids, turn_number, runtime_response>>
    /\ UNCHANGED <<saved_response, synced_response>>
    /\ UNCHANGED <<personality_mode, character_data, user_input, context,
                   raw_response, parsed_response, enhanced_response,
                   conversation_history, session_id, event, call, invoke_result>>

NextStream == MainCall

SpecStream == InitStream /\ [][NextStream]_vars

\* -------------------------------------- specification: enhance_response
\* Replies handed to enhance_response: genuine ones, one that dwells on the
\* jar, ones that hold an indicator (inside a word of the response, in
\* another field in capitals, in the name of a field), ones that lack a
\* field, the error reply, and ones whose self_reflection is a list or
\* None or whose response is None.
EnhanceInputs ==
    {FullPayload(required_keys), JarReply, TerrorReply, ErrorReply,
     [FullPayload(required_keys) EXCEPT
         !["memories"] = Words(<<"A", "System", "Malfunction", "occurred">>)],
     [FullPayload(required_keys) EXCEPT
         !["thoughts"] = <<Words(<<"so", "many", "Errors">>)>>],
     FullPayload(required_keys \cup {"error"}),
     FullPayload(required_keys \ {"response"}),
     FullPayload({"response"}),
     [FullPayload(required_keys) EXCEPT !["self_reflection"] = ListValue(<<"calm">>)],
     [FullPayload(required_keys) EXCEPT !["self_reflection"] = NoneValue],
     [FullPayload(required_keys) EXCEPT !["response"] = NoneValue]}

InitEnhance ==
    /\ pc = "enhance_response"
    /\ personality_mode = "default"
    /\ parsed_response \in {PyDict(reply) : reply \in EnhanceInputs}
    /\ enhanced_response = PyNone
    /\ raw_response = PyNone
    /\ context = <<>>
    /\ character_data = NoCharacter
    /\ user_input = <<>>
    /\ final_response = PyNone
    /\ conversation_history = <<>>
    /\ session_id = ""
    /\ event = PyNone
    /\ http_status = 0
    /\ http_body = PyNone
    /\ call = NoCall
    /\ invoke_result = PyNone
    /\ memory_records = NoRecords
    /\ memory_store = NoStore
    /\ memory_log = <<>>
    /\ trace = <<>>
    /\ analyze_log = <<>>
    /\ cap = 0
    /\ message_id = ""
    /\ uuids = 0
    /\ turn_number = 1
    /\ processed = <<>>
    /\ runtime_response = PyNone
    /\ saved_response = PyNone
    /\ synced_response = PyNone

NextEnhance == EnhanceResponseCall

SpecEnhance == InitEnhance /\ [][NextEnhance]_vars

\* ---------------------------------------- specification: the end of a turn
\* The user inputs of the turns that are brought to their end.
PersistInputs == {WhatsMyName, Words(<<"I", "attack", "the", "goblin">>)}

\* Controller.process_input from the review of the enhanced reply on:
\* enhanced_response is the reply of the depth stage, http_status the
\* status the save mutation would be answered with.
InitPersist ==
    /\ pc = "review_response"
    /\ conversation_history \in Histories
    /\ personality_mode \in {"default", "game_master"}
    /\ character_data \in TurnCharacters
    /\ user_input \in PersistInputs
    /\ enhanced_response \in RecallReplies
    /\ memory_store \in TurnStores
    /\ http_status \in {200, 500}
    /\ message_id \in {"", "message-1"}
    /\ session_id = "conversation-1"
    /\ context = <<>>
    /\ raw_response = PyNone
    /\ parsed_response = PyNone
    /\ final_response = PyNone
    /\ event = PyNone
    /\ http_body = PyNone
    /\ call = NoCall
    /\ invoke_result = NotInvoked
    /\ memory_records = NoRecords
    /\ memory_log = <<>>
    /\ trace = <<>>
    /\ analyze_log = <<>>
    /\ cap = 0
    /\ uuids = 0
    /\ turn_number = 1
    /\ processed = <<>>
    /\ runtime_response = PyNone
    /\ saved_response = PyNone
    /\ synced_response = PyNone

\* The review, the recall, the save, the sync, the append and the return
\* of process_input.
PersistAndSyncCall ==
    /\ pc = "review_response"
    /\ \E final \in {ControllerPostprocess(character_data, user_input,
                                           ReviewResponse(enhanced_response))} :
          \E tail \in {PersistAndSync(conversation_history, personality_mode,
                                      character_data, memory_store, user_input,
                                      final, http_status, message_id, uuids)} :
             /\ final_response' = tail.value
             /\ conversation_history' = tail.history
             /\ memory_log' = tail.log
             /\ uuids' = tail.uuids
             /\ saved_response' = tail.saved
             /\ synced_response' = tail.synced
             /\ trace' = SubSeq(AllStages, 5, 5 + tail.stages)
             /\ pc' = IF Raised(tail.value) THEN "turn_raised" ELSE "turn_returned"
    /\ UNCHANGED <<memory_records, memory_store, analyze_log, cap>>
    /\ UNCHANGED <<message_id, turn_number, processed, runtime_response>>
    /\ UNCHANGED <<personality_mode, character_data, user_input, context,
                   raw_response, parsed_response, enhanced_response, session_id,
                   event, http_status, http_body, call, invoke_result>>

NextPersist == PersistAndSyncCall

SpecPersist == InitPersist /\ [][NextPersist]_vars

\* ------------------------------------------------------ claims: normalizer
\* The five base fields of a structured reply, as the claims name them.
FiveKeys == {"sensations", "thoughts", "memories", "self_reflection", "response"}

HasFiveKeys(v) == v.kind = "dict" /\ FiveKeys \subseteq DOMAIN v.d

\* A text with its surrounding code fence (opening fence, optional json tag,
\* closing fence) removed when it has one.
Unfenced(text) ==
    LET t == Strip(text)
    IN IF Len(t) >= 2 /\ t[1] = FENCE /\ t[Len(t)] = FENCE
       THEN LET inner == SubSeq(t, 2, Len(t) - 1)
            IN IF inner # <<>> /\ inner[1] = W("json") THEN Tail(inner) ELSE inner
       ELSE t

\* The text is one JSON object, possibly inside a surrounding code fence.
IsObjectText(text) ==
    LET u == Strip(Unfenced(text))
    IN Len(u) = 1 /\ IsLit(u[1]) /\ u[1].doc.kind = "dict"

ObjectOfText(text) == Strip(Unfenced(text))[1].doc

\* C1: for every raw model output (mapping, text or any other value) and any
\* context, analyze_input returns (no exception escapes) a mapping that has
\* all five keys sensations, thoughts, memories, self_reflection, response.
C1_AlwaysFiveFields ==
    pc = "analyzed" => HasFiveKeys(parsed_response)

\* An incomplete mapping whose response text is no JSON was normalized.
C1_Witness ==
    /\ pc = "analyzed"
    /\ raw_response.kind = "dict"
    /\ DOMAIN raw_response.d = {"response"}
    /\ raw_response.d["response"] = Words(<<"I", "feel", "strange">>)
    /\ HasFiveKeys(parsed_response)

\* C2: a raw text that, after removal of a surrounding code fence (with or
\* without the json tag), is a JSON object with the five keys is returned as
\* the decoded object: same keys, same values, empty values included.
C2_CompleteObjectReturnedVerbatim ==
    (/\ pc = "analyzed"
     /\ raw_response.kind = "str"
     /\ IsObjectText(raw_response.s)
     /\ FiveKeys \subseteq DOMAIN ObjectOfText(raw_response.s).d)
        => parsed_response = ObjectOfText(raw_response.s)

\* A fenced, json-tagged object whose five values are all empty came back.
C2_Witness ==
    /\ pc = "analyzed"
    /\ raw_response.kind = "str"
    /\ Len(raw_response.s) >= 4
    /\ raw_response.s[1] = FENCE
    /\ raw_response.s[2] = W("json")
    /\ raw_response.s[Len(raw_response.s)] = FENCE
    /\ IsObjectText(raw_response.s)
    /\ parsed_response = PyDict([k \in FiveKeys |-> <<>>])

\* The raw output is a mapping, or a text that is one JSON object, carrying
\* sensations, thoughts, memories, response and the self-reflection value
\* under the alias selfReflection only.
AliasedInput(raw) ==
    LET obj == IF raw.kind = "dict" THEN raw
               ELSE IF raw.kind = "str" /\ IsObjectText(raw.s)
                    THEN ObjectOfText(raw.s) ELSE PyNone
    IN IF /\ obj.kind = "dict"
          /\ (FiveKeys \ {"self_reflection"}) \cup {"selfReflection"} \subseteq DOMAIN obj.d
          /\ "self_reflection" \notin DOMAIN obj.d
       THEN obj ELSE PyNone

\* C3 as stated: the aliased input is accepted and returned with the alias
\* renamed: self_reflection holds the selfReflection value, the result has no
\* selfReflection key, every other key and value equals the input's.
C3_AliasRenamed ==
    (pc = "analyzed" /\ AliasedInput(raw_response).kind = "dict")
        => LET inp == AliasedInput(raw_response).d
               out == parsed_response.d
           IN /\ parsed_response.kind = "dict"
              /\ "self_reflection" \in DOMAIN out
              /\ out["self_reflection"] = inp["selfReflection"]
              /\ "selfReflection" \notin DOMAIN out
              /\ \A k \in DOMAIN inp \ {"selfReflection"} :
                    k \in DOMAIN out /\ out[k] = inp[k]

\* C3 amended: the aliased input is accepted and returned with the canonical
\* key added: self_reflection holds the selfReflection value, the alias key
\* selfReflection is kept with its value, and every other key and value
\* equals the input's.
C3_AliasCopiedToCanonical ==
    (pc = "analyzed" /\ AliasedInput(raw_response).kind = "dict")
        => LET inp == AliasedInput(raw_response).d
               out == parsed_response.d
           IN /\ parsed_response.kind = "dict"
              /\ DOMAIN out = DOMAIN inp \cup {"self_reflection"}
              /\ out["self_reflection"] = inp["selfReflection"]
              /\ \A k \in DOMAIN inp : out[k] = inp[k]

\* An aliased mapping with genuine content was normalized.
C3_Witness ==
    /\ pc = "analyzed"
    /\ raw_response.kind = "dict"
    /\ AliasedInput(raw_response).kind = "dict"
    /\ raw_response.d["selfReflection"] = Words(<<"aliased", "reflection">>)
    /\ parsed_response.kind = "dict"
    /\ parsed_response.d["self_reflection"] = Words(<<"aliased", "reflection">>)

\* The sentinel error reply, as the claim spells it.
SentinelErrorReply ==
    [sensations |-> <<Words(<<"Error", "processing", "response">>)>>,
     thoughts |-> <<Words(<<"Unable", "to", "parse", "thoughts">>)>>,
     memories |-> Words(<<"Memory", "retrieval", "failed">>),
     self_reflection |-> Words(<<"Self-reflection", "unavailable">>),
     response |-> Words(<<"I", "apologize", ",", "but", "I'm", "having",
                          "trouble", "processing", "that", "right", "now", ".">>)]

\* C4: a raw text that is not decodable as JSON, as it stands and after
\* code-fence stripping, yields exactly the sentinel error reply, and no
\* exception escapes.
C4_UndecodableTextYieldsSentinel ==
    (/\ pc = "analyzed"
     /\ raw_response.kind = "str"
     /\ JsonLoads(raw_response.s) = JSONDecodeError
     /\ JsonLoads(StripMarkdownFences(raw_response.s)) = JSONDecodeError)
        => parsed_response = PyDict(SentinelErrorReply)

\* Plain prose was normalized to the sentinel.
C4_Witness ==
    /\ pc = "analyzed"
    /\ raw_response = PyStr(Words(<<"I", "feel", "strange">>))
    /\ parsed_response = PyDict(SentinelErrorReply)

\* --------------------------------------------------------- claims: depth
\* The invoker's fallback reply, as the source spells it.
InvokerFallbackReply ==
    [sensations |-> <<Words(<<"Error", "processing", "input">>)>>,
     thoughts |-> <<Words(<<"System", "malfunction">>)>>,
     memories |-> Words(<<"Unable", "to", "access", "memory", "banks">>),
     self_reflection |-> Words(<<"Experiencing", "technical", "difficulties">>),
     response |-> Words(<<"I'm", "experiencing", "technical", "difficulties", "and",
                          "cannot", "process", "your", "request", "at", "the",
                          "moment", ".">>)]

\* C5: the sentinel error reply of the normalizer and the fallback reply of
\* the invoker are never ornamented by depth enhancement: after
\* enhance_response (called directly or through apply_depth) the response
\* field and every other field equal the fields before enhancement.
C5_SentinelNeverEnhanced ==
    (/\ pc = "depth_done"
     /\ parsed_response \in {PyDict(SentinelErrorReply), PyDict(InvokerFallbackReply)})
        => enhanced_response = parsed_response

\* Both replies went through the Default handler's depth stage, which did
\* enhance the genuine replies.
C5_Witness ==
    /\ pc = "depth_done"
    /\ personality_mode = "default"
    /\ parsed_response = PyDict(SentinelErrorReply)
    /\ enhanced_response.d["response"] = SentinelErrorReply["response"]

\* -------------------------------------------------- claims: character recall
\* The call of postprocess_response is over, by a return or by an exception.
PostprocessOver == pc \in {"postprocessed", "postprocess_raised"}

\* Narrative mode, a character sheet, a reply that is a mapping.
NarrativeRecallCase ==
    /\ PostprocessOver
    /\ trace = <<"postprocess_response">>
    /\ personality_mode = "game_master"
    /\ HasCharacter(character_data)
    /\ enhanced_response.kind = "dict"

\* C6: in narrative mode with a character sheet whose name is X,
\* postprocess_response for the input "what's my name?" sets the response
\* field to exactly "Your name is X. What do you do next?" whatever the model
\* text was; and whenever the input requests at least one sheet field the
\* response is replaced by a text ending in " What do you do next?" that is
\* the same for every model text and every input requesting the same fields.
C6_RecallReplacesResponse ==
    NarrativeRecallCase =>
        /\ (user_input = WhatsMyName /\ "name" \in DOMAIN character_data)
              => /\ final_response.kind = "dict"
                 /\ final_response.d["response"] =
                        <<W("Your name is "), W(character_data["name"]), W("."),
                          W(" What do you do next?")>>
        /\ RequestedCharacterFields(user_input) # {}
              => /\ final_response.kind = "dict"
                 /\ final_response.d["response"][Len(final_response.d["response"])]
                        = W(" What do you do next?")
                 /\ \A other \in RecallReplies, input \in UserInputs :
                       (/\ other.kind = "dict"
                        /\ RequestedCharacterFields(input)
                              = RequestedCharacterFields(user_input))
                          => PostprocessResponse("game_master", character_data,
                                                 input, other).d["response"]
                                = final_response.d["response"]

\* The failing case: the name question on a sheet whose inventory holds an
\* infinite quantity ends in the exception.
C6_Witness ==
    /\ pc = "postprocess_raised"
    /\ personality_mode = "game_master"
    /\ user_input = WhatsMyName
    /\ "name" \in DOMAIN character_data
    /\ final_response = OverflowError

\* ------------------------------------------------------ claims: agent runtime
\* BrainAgent.process was called and has returned final_response.
ProcessReturned ==
    \/ pc = "processed"
    \/ pc = "responded" /\ event.kind # "invalid"

\* The persona of the event is the narrative persona: mode game_master and
\* name The Game Master.
NarrativePersona ==
    /\ event.persona.mode = "game_master"
    /\ event.persona.name = "The Game Master"

\* The JSON object the model text decodes to (the empty mapping when it
\* decodes to none).
ModelObject ==
    IF raw_response.kind = "str" /\ JsonLoads(raw_response.s).kind = "dict"
    THEN JsonLoads(raw_response.s).d ELSE EmptyMap

\* C7 as stated: the reply returned by process holds a quest key only when
\* the persona mode is game_master and the persona name is The Game Master;
\* for every other persona it holds none of the four, whatever the model
\* returned.
C7_QuestKeysOnlyForNarrativePersona ==
    (ProcessReturned /\ final_response.kind = "dict" /\ ~NarrativePersona)
        => DOMAIN final_response.d \cap QuestKeys = {}

\* C7 as the code has it: process adds a quest key only for the narrative
\* persona; every quest key of a reply is either one the model's own JSON
\* object carried, returned with the model's value, or a default added for
\* the narrative persona.
C7_QuestKeysAddedOnlyForNarrativePersona ==
    (ProcessReturned /\ final_response.kind = "dict")
        => \A k \in DOMAIN final_response.d \cap QuestKeys :
              \/ k \in DOMAIN ModelObject /\ final_response.d[k] = ModelObject[k]
              \/ NarrativePersona /\ final_response.d[k] = quest_metadata[k]

\* The failing case: under the default persona the model's object carries
\* a quest_title, and the reply returned carries it too.
C7_Witness ==
    /\ pc = "processed"
    /\ event.persona.mode = "default"
    /\ event.persona.name = "Brain"
    /\ raw_response =
          PyStr(<<Lit(PyDict(FullPayload(required_keys \cup {"quest_title"})))>>)
    /\ final_response.kind = "dict"
    /\ "quest_title" \in DOMAIN final_response.d

\* C10: the body of every response of /invocations is a reply with the five
\* base fields; the status is 200 whenever process returned; the status is
\* 500, with the fixed sentinel reply as body, only when the handler threw
\* (here: the request body is no JSON, or the reply cannot be rendered).
C10_BodyAlwaysReply ==
    pc = "responded" =>
        /\ HasFiveKeys(http_body)
        /\ ProcessReturned => http_status = 200
        /\ http_status \in {200, 500}
        /\ http_status = 500 =>
              /\ http_body = PyDict(InvokerFallbackReply)
              /\ event.kind = "invalid" \/ RenderRaises(final_response)

\* The failing case: a model text that is a JSON array naming the five
\* fields is answered with status 200 and the array as body.
C10_Witness ==
    /\ pc = "responded"
    /\ http_status = 200
    /\ raw_response = PyStr(<<Lit(PyListOf(required_fields))>>)
    /\ http_body = PyListOf(required_fields)

\* ------------------------------------------------------ claims: model invoker
\* The call of generate_response is over, by a return or by an exception.
GenerateOver == pc \in {"generated", "generate_raised"}

\* C9: generate_response never raises to its caller; whenever invoke raises
\* an exception or returns an empty result, generate_response returns the
\* fixed fallback reply, which holds the five base fields.
C9_InvokerFailsClosed ==
    GenerateOver =>
        /\ pc = "generated"
        /\ ~Raised(raw_response)
        /\ (invoke_result.kind \in ExceptionKinds \/ invoke_result = PyDict(EmptyMap))
              => /\ raw_response = PyDict(InvokerFallbackReply)
                 /\ HasFiveKeys(raw_response)

\* What holds of a call that passes variables, a mapping, and session_id by
\* keyword: it returns, and it returns the fallback reply whenever invoke
\* raised or returned an empty result.
C9_KeywordCallFailsClosed ==
    (/\ GenerateOver
     /\ call.positional = 0
     /\ call.variables = "dict"
     /\ call.session_id # "absent")
        => /\ pc = "generated"
           /\ invoke_result # NotInvoked
           /\ (invoke_result.kind \in ExceptionKinds \/ invoke_result = PyDict(EmptyMap))
                 => /\ raw_response = PyDict(InvokerFallbackReply)
                    /\ HasFiveKeys(raw_response)

\* The failing case: the call as Controller.process_input writes it, the
\* prompt as a positional argument, ends in TypeError before invoke is
\* reached.
C9_Witness ==
    /\ pc = "generate_raised"
    /\ call.positional = 1
    /\ call.variables = "absent"
    /\ call.session_id = "given"
    /\ raw_response = Exc("TypeError")
    /\ invoke_result = NotInvoked

\* --------------------------------------------------------- claims: one turn
\* C8: every turn started with Controller.process_input returns a reply and
\* is recorded: whether the model invocation succeeds or fails, the call
\* returns a reply holding the five base fields and appends exactly one
\* {user_input, response} entry to the end of conversation_history, leaving
\* the earlier entries as they were.
C8_TurnReturnsAndIsRecorded ==
    [][(pc = "process_input" /\ pc' # "process_input")
          => /\ pc' = "turn_returned"
             /\ HasFiveKeys(final_response')
             /\ conversation_history' =
                    Append(conversation_history,
                           [user_input |-> user_input, response |-> final_response'])]_vars

\* The failing case: the turn ends in the TypeError of the generate_response
\* call, before the model is invoked, and nothing is recorded.
C8_Witness ==
    /\ pc = "turn_raised"
    /\ final_response = Exc("TypeError")
    /\ call.positional = 1
    /\ invoke_result = NotInvoked
    /\ conversation_history = <<>>

\* ---------------------------------------------- claims: context assembly
IsPart(part) == part # <<>>

\* The parts that are not empty, consecutive ones separated by one blank
\* line.
JoinParts(parts) == Join(<<NL, NL>>, SelectSeq(parts, IsPart))

ContextAssembled == pc \in {"enriched", "assembled"}

\* The step of an assembler leaves in context the character block (when a
\* sheet is present), the memory block (when records are left) and the
\* turn-history text, in this order, the parts that are present separated
\* by one blank line.  Outside the narrative mode a block may be left out.
BlockOrderKept ==
    LET narrative == personality_mode = "game_master"
        turn_history ==
            IF pc = "enrich_context" THEN context
            ELSE RetrieveContext(conversation_history, ContextInteractions)
        character_block ==
            IF pc = "enrich_context"
            THEN HandlerFormatCharacterContext(character_data).s
            ELSE FormatCharacterContext(character_data)
        memory_block == MemoryBlock(RetrievedRecords(memory_records))
        character_options ==
            IF ~HasCharacter(character_data) THEN {<<>>}
            ELSE IF narrative THEN {character_block}
            ELSE {<<>>, character_block}
        memory_options ==
            IF narrative THEN {memory_block} ELSE {<<>>, memory_block}
    IN /\ ContextAssembled'
       /\ \E c \in character_options, m \in memory_options :
             context' = JoinParts(<<c, m, turn_history>>)

\* C11: the assembled context is the PLAYER CHARACTER block, then the
\* AGENTCORE MEMORY block, then the turn-history text, each present part
\* separated from the next by one blank line, a block with an empty source
\* omitted and the turn-history text unmodified, for enrich_context of the
\* mode handler and for the context lines of Controller.process_input.
C11_FixedBlockOrder ==
    [][(pc \in {"enrich_context", "assemble_context"} /\ pc' # pc)
          => BlockOrderKept]_vars

\* The Controller has assembled a context for a sheet with no memory record
\* and no history: the character block is followed by a blank line and
\* nothing.
C11_Witness ==
    /\ pc = "assembled"
    /\ HasCharacter(character_data)
    /\ conversation_history = <<>>
    /\ MemoryBlock(RetrievedRecords(memory_records)) = <<>>
    /\ context = FormatCharacterContext(character_data) \o <<NL, NL>>

\* enrich_context keeps the order whenever it returns.
C11_HandlerBlockOrder ==
    [][(pc = "enrich_context" /\ pc' = "enriched") => BlockOrderKept]_vars

\* The Controller keeps the order whenever something follows the character
\* block.
C11_ControllerBlockOrder ==
    [][(/\ pc = "assemble_context"
        /\ pc' # pc
        /\ \/ ~HasCharacter(character_data)
           \/ conversation_history # <<>>
           \/ /\ personality_mode = "game_master"
              /\ MemoryBlock(RetrievedRecords(memory_records)) # <<>>)
          => BlockOrderKept]_vars

\* The last k turns of a history.
LastTurns(history, k) == SubSeq(history, Len(history) - k + 1, Len(history))

Min(a, b) == IF a < b THEN a ELSE b

\* C15: for every history and every cap N >= 0, retrieve_context renders
\* exactly the last min(N, length) turns, oldest first, each as a User line,
\* a Brain line and a blank line; an empty history gives the empty string.
C15_RendersLastTurns ==
    pc = "retrieved"
        => context =
               InteractionsText(
                   LastTurns(conversation_history,
                             Min(cap, Len(conversation_history))))

\* retrieve_context has been called with n = 0 on a history that is not
\* empty, and has rendered all of it.
C15_Witness ==
    /\ pc = "retrieved"
    /\ cap = 0
    /\ conversation_history # <<>>
    /\ context = InteractionsText(conversation_history)
    /\ context # <<>>

\* With a cap of at least one the last min(N, length) turns are rendered.
C15_PositiveCapRendersLastTurns ==
    (pc = "retrieved" /\ cap > 0)
        => context =
               InteractionsText(
                   LastTurns(conversation_history,
                             Min(cap, Len(conversation_history))))

\* Each rendered turn is a User line, a Brain line and a blank line.
C15_TurnRendering ==
    \A input \in {Words(<<"one">>)}, reply \in {PyStr(Words(<<"first">>))} :
        InteractionsText(<<Interaction(input, reply)>>) =
            <<W("User: ")>> \o input \o <<NL, W("Brain: "), Repr(reply), NL, NL>>

\* --------------------------------------------------- claims: memory sync
SyncEntered == pc \in {"sync_memory", "sync_agentcore_memory"}

FailedWrite(op) ==
    \E i \in DOMAIN memory_log : memory_log[i].op = op /\ ~memory_log[i].ok

\* C12: memory sync is best-effort: for every combination of failing
\* create_short_term_event and save_memory_record calls, sync_memory and
\* Controller._sync_agentcore_memory return normally and leave the final
\* reply as it was.
C12_SyncIsBestEffort ==
    [][(SyncEntered /\ pc' # pc)
          => /\ pc' = "synced"
             /\ final_response' = final_response]_vars

\* A sync has returned although an event write and the record write failed.
C12_Witness ==
    /\ pc = "synced"
    /\ FailedWrite("create_event")
    /\ FailedWrite("batch_create_memory_records")
    /\ final_response \in SyncReplies

NarrativeSync == personality_mode = "game_master"

\* A sync that can persist both events: the store is configured and
\* accepts every write, and neither text is empty.
BothTextsPersistable ==
    /\ memory_store = NoStore
    /\ user_input # <<>>
    /\ SyncResponseText(final_response) # <<>>

EventPersisted(role, text) ==
    \E i \in DOMAIN memory_log :
        memory_log[i] = Write("create_event", role, text, TRUE)

RecordsOnlyNarrative ==
    \A i \in DOMAIN memory_log :
        memory_log[i].op = "batch_create_memory_records"
            => NarrativeSync /\ HasCharacter(character_data)

\* C13 as stated: the sync of both mode variants persists a USER event with
\* the user input and an ASSISTANT event with the response text, and only
\* the narrative variant saves a character record.
C13_BothVariantsPersistEvents ==
    (pc = "synced" /\ BothTextsPersistable)
        => /\ EventPersisted("USER", user_input)
           /\ EventPersisted("ASSISTANT", SyncResponseText(final_response))
           /\ RecordsOnlyNarrative

\* C13 (amended): only the narrative sync persists the turn, as a USER event
\* with the user input followed by an ASSISTANT event with the response
\* text, and it saves a character record only when a sheet is present; the
\* sync of the Default variant writes nothing.
C13_OnlyNarrativeSyncPersists ==
    pc = "synced"
        => /\ ~NarrativeSync => memory_log = <<>>
           /\ (NarrativeSync /\ BothTextsPersistable)
                 => /\ Len(memory_log) >= 2
                    /\ memory_log[1] = Write("create_event", "USER", user_input, TRUE)
                    /\ memory_log[2] =
                           Write("create_event", "ASSISTANT",
                                 SyncResponseText(final_response), TRUE)
           /\ RecordsOnlyNarrative

\* A narrative sync has persisted both events and the character record.
C13_Witness ==
    /\ pc = "synced"
    /\ NarrativeSync
    /\ BothTextsPersistable
    /\ HasCharacter(character_data)
    /\ Len(memory_log) = 3
    /\ memory_log[3].op = "batch_create_memory_records"
    /\ memory_log[3].ok

\* ------------------------------------------------- claims: repeated calls
OwnCalls == {i \in DOMAIN analyze_log : analyze_log[i].own}

TurnStep == pc = "process_input" /\ pc' # "process_input"

\* The number of times the runtime was invoked in the turn.
BackendCalls(invoked) == IF invoked = NotInvoked THEN 0 ELSE 1

\* C16: within one Controller.process_input call the stages run exactly once
\* each, in the order enrich context, invoke model, normalize, depth-enhance,
\* postprocess, persist and sync, and the model backend is invoked at most
\* once in the turn.
C16_StagesOnceEachInOrder ==
    [][TurnStep => /\ trace' = AllStages
                   /\ BackendCalls(invoke_result') <= 1]_vars

\* The failing case: a turn whose only finished stage is the enrichment of
\* the context; the call of the invoker raised and no later stage ran.
C16_Witness ==
    /\ pc = "turn_raised"
    /\ trace = <<"enrich">>
    /\ raw_response = Exc("TypeError")
    /\ parsed_response = PyNone
    /\ memory_log = <<>>

\* What does hold of the stages: the ones that ran are an initial part of
\* the fixed order, none twice, and the runtime is invoked at most once.
C16_StagesArePrefixOfOrder ==
    /\ Len(trace) <= Len(AllStages)
    /\ trace = SubSeq(AllStages, 1, Len(trace))
    /\ BackendCalls(invoke_result) <= 1


\* -------------------------------------------- claims: depth in narrative mode
\* The response text and the self reflection of a reply (nothing when the
\* reply was never produced).
ToneFields(reply) ==
    <<Get(reply.d, "response", <<>>), Get(reply.d, "self_reflection", <<>>)>>

\* C17: in narrative (game_master) mode the reply is never depth-enhanced: a
\* game_master turn run through Controller.process_input reaches
\* postprocessing, with response and self_reflection equal to the values the
\* normalizer returned.
C17_NarrativeTurnNotEnhanced ==
    [][(TurnStep /\ personality_mode = "game_master")
          => /\ Len(trace') >= 5
             /\ trace'[5] = "postprocess"
             /\ parsed_response'.kind = "dict"
             /\ ToneFields(enhanced_response') = ToneFields(parsed_response')]_vars

\* The failing case: a game_master turn with a character sheet ended in the
\* TypeError of the generate_response call and never came to postprocessing.
C17_Witness ==
    /\ pc = "turn_raised"
    /\ personality_mode = "game_master"
    /\ HasCharacter(character_data)
    /\ final_response = Exc("TypeError")
    /\ Len(trace) < 5
    /\ enhanced_response = PyNone

\* The handler's half of the claim: apply_depth of the game_master handler
\* returns the reply as it was given.
C17_ApplyDepthKeepsNarrativeReply ==
    (/\ pc = "depth_done"
     /\ trace = <<"apply_depth">>
     /\ personality_mode = "game_master")
        => enhanced_response = parsed_response

\* The depth stage as the Controller calls it: a game_master reply whose
\* response text was changed by enhance_response.
C17_ControllerEnhancesNarrativeReply ==
    /\ pc = "depth_done"
    /\ trace = <<"enhance_response">>
    /\ personality_mode = "game_master"
    /\ ToneFields(enhanced_response) # ToneFields(parsed_response)


\* ------------------------------------------ claims: recall only on questions
\* The question words of the claim.
QuestionWords ==
    {<<"what">>, <<"who">>, <<"tell">>, <<"remind">>, <<"show">>, <<"list">>,
     <<"do", "you", "know">>, <<"can", "you">>}

\* The utterance holds a question mark or one of the question words, in
\* either case of letters.
IsQuestion(input) ==
    \/ \E i \in DOMAIN input : input[i].w = "?"
    \/ \E phrase \in QuestionWords :
          \E i \in 1..(Len(input) - Len(phrase) + 1) :
             \A j \in 1..Len(phrase) : LowerWord(input[i + j - 1].w) = phrase[j]

\* The utterance mentions a keyword of the character sheet.
SheetKeywords ==
    {"inventory", "strength", "hit", "character", "hp", "stats"}

MentionsSheet(input) == \E i \in DOMAIN input : input[i].w \in SheetKeywords

\* The reply that came out of the recall equals the reply that went in: the
\* response text is the one the reply had (the empty text when it had
\* none), every other field is untouched, a reply that is no mapping is
\* returned as it is.
ResponseKept ==
    IF enhanced_response.kind # "dict" THEN final_response = enhanced_response
    ELSE /\ final_response.kind = "dict"
         /\ Get(final_response.d, "response", <<>>)
                = Get(enhanced_response.d, "response", <<>>)
         /\ \A k \in DOMAIN enhanced_response.d : final_response.d[k] = enhanced_response.d[k]
         /\ DOMAIN final_response.d \subseteq DOMAIN enhanced_response.d \cup {"response"}

\* C18: the character-recall override fires only on questions: for an
\* utterance holding neither a question mark nor a question word,
\* _requested_character_fields returns the empty set and the recall, of the
\* mode handler and of the Controller, leaves the response text as it was,
\* also when the utterance mentions sheet keywords; and the response is as
\* it was whenever no character sheet is present.
C18_RecallOnlyOnQuestions ==
    /\ (PostprocessOver /\ ~IsQuestion(user_input))
          => /\ RequestedCharacterFields(user_input) = {}
             /\ pc = "postprocessed"
             /\ ResponseKept
    /\ (PostprocessOver /\ ~HasCharacter(character_data))
          => /\ pc = "postprocessed"
             /\ ResponseKept

\* A statement that mentions the inventory, in narrative mode with a full
\* sheet: the model's text was kept by the handler.
C18_Witness ==
    /\ pc = "postprocessed"
    /\ trace = <<"postprocess_response">>
    /\ personality_mode = "game_master"
    /\ HasCharacter(character_data)
    /\ "inventory" \in DOMAIN character_data
    /\ ~IsQuestion(user_input)
    /\ MentionsSheet(user_input)
    /\ enhanced_response.kind = "dict"
    /\ "response" \in DOMAIN enhanced_response.d
    /\ final_response.d["response"] = enhanced_response.d["response"]
    /\ final_response.d["response"] # <<>>

\* The same through the Controller's copy of the recall.
C18_ControllerKeepsStatement ==
    /\ pc = "postprocessed"
    /\ trace = <<"enforce_character_recall">>
    /\ HasCharacter(character_data)
    /\ ~IsQuestion(user_input)
    /\ MentionsSheet(user_input)
    /\ final_response = enhanced_response


\* ------------------------------------------------- claims: nested reply text
\* A decoded object is complete: it has the five required fields, the self
\* reflection possibly under its alias.
CompleteObject(doc) ==
    /\ doc.kind = "dict"
    /\ FiveKeys \ {"self_reflection"} \subseteq DOMAIN doc.d
    /\ {"self_reflection", "selfReflection"} \cap DOMAIN doc.d # {}

\* The raw output is a mapping that lacks a required field.
IncompleteMapping(raw) == raw.kind = "dict" /\ ~CompleteObject(raw)

\* A complete object with the self reflection under its canonical key too.
WithCanonicalKey(doc) ==
    IF "self_reflection" \in DOMAIN doc.d THEN doc
    ELSE PyDict(("self_reflection" :> doc.d["selfReflection"]) @@ doc.d)

\* The complete objects written anywhere in a text.
CompleteObjectsIn(text) ==
    {text[i].doc : i \in {j \in DOMAIN text : IsLit(text[j]) /\ CompleteObject(text[j].doc)}}

\* The text under "response" of a mapping (empty when there is none).
NestedText(raw) == Get(raw.d, "response", <<>>)

\* C19: when the raw output is a mapping that lacks a required field and its
\* response value is a text that, with its code fence removed, is a JSON
\* object with the five required fields (or the selfReflection alias),
\* analyze_input returns that nested object; when the nested text holds no
\* complete object the result is the sentinel error reply; and the result is
\* never anything but one of the two.
C19_NestedReplyTextIsParsed ==
    (pc = "analyzed" /\ IncompleteMapping(raw_response))
        => LET text == NestedText(raw_response)
           IN /\ (IsObjectText(text) /\ CompleteObject(ObjectOfText(text)))
                    => parsed_response = WithCanonicalKey(ObjectOfText(text))
              /\ CompleteObjectsIn(text) = {}
                    => parsed_response = PyDict(SentinelErrorReply)
              /\ \/ parsed_response = PyDict(SentinelErrorReply)
                 \/ \E doc \in CompleteObjectsIn(text) :
                       parsed_response = WithCanonicalKey(doc)

\* A mapping holding memories and, under response, a fenced and json-tagged
\* complete object: the nested object came back.
C19_Witness ==
    /\ pc = "analyzed"
    /\ raw_response.kind = "dict"
    /\ DOMAIN raw_response.d = {"response", "memories"}
    /\ raw_response.d["response"] = <<FENCE, W("json"), Lit(CompleteDoc), FENCE>>
    /\ parsed_response = CompleteDoc

\* The other outcome: the nested text is an object that lacks a field, and
\* the sentinel came back.
C19_SentinelForIncompleteNestedObject ==
    /\ pc = "analyzed"
    /\ IncompleteMapping(raw_response)
    /\ IsObjectText(NestedText(raw_response))
    /\ ~CompleteObject(ObjectOfText(NestedText(raw_response)))
    /\ parsed_response = PyDict(SentinelErrorReply)


\* --------------------------------------------------- claims: one sentinel
\* The call of invoke made by generate_response raised.
InvocationFailed == invoke_result.kind \in ExceptionKinds

\* C20: there is one fixed sentinel error reply: the reply obtained when the
\* model invocation fails is field for field the reply the normalizer
\* returns when parsing fails.
C20_OneFixedSentinel ==
    (pc = "generated" /\ InvocationFailed)
        => /\ raw_response.kind = "dict"
           /\ \A k \in FiveKeys : raw_response.d[k] = SentinelErrorReply[k]

\* The failing case: invoke raised, generate_response returned its own
\* fallback reply, and not one of its five fields is the normalizer's.
C20_Witness ==
    /\ pc = "generated"
    /\ InvocationFailed
    /\ raw_response = PyDict(FallbackResponse)
    /\ \A k \in FiveKeys : raw_response.d[k] # SentinelErrorReply[k]
    /\ AnalyzeInput(raw_response, context) = raw_response

\* The normalizer's half of the claim: a text that cannot be decoded and a
\* value the parser raises on are both answered with the one error reply.
C20_NormalizerFailuresShareReply ==
    (/\ pc = "analyzed"
     /\ \/ raw_response.kind \notin {"dict", "str"}
        \/ /\ raw_response.kind = "str"
           /\ JsonLoads(StripMarkdownFences(raw_response.s)) = JSONDecodeError
           /\ JsonLoads(raw_response.s) = JSONDecodeError)
        => parsed_response = PyDict(SentinelErrorReply)


\* ------------------------------------------- claims: keys of the records
\* The request identifiers of the character records written so far.
RecordIds(log) == {RecordWrites(log)[i].id : i \in DOMAIN RecordWrites(log)}

LastRecordId(log) == RecordWrites(log)[Len(RecordWrites(log))].id

\* A sync that wrote a character record, after a record was written before.
RecordWrittenAgain ==
    /\ RecordWrites(memory_log) # <<>>
    /\ Len(RecordWrites(memory_log')) = Len(RecordWrites(memory_log)) + 1

\* C21: the character record of narrative sync_memory is keyed by a stable
\* per-turn identifier: for every turn, with or without a message id, a
\* second sync of the same turn passes the request identifier of the first
\* to save_memory_record, and the sync of another turn passes an identifier
\* passed for no turn before.
C21_StableRecordKey ==
    [][RecordWrittenAgain
          => /\ turn_number' = turn_number
                   => LastRecordId(memory_log') = LastRecordId(memory_log)
             /\ turn_number' # turn_number
                   => LastRecordId(memory_log') \notin RecordIds(memory_log)]_vars

\* The failing case: a turn without a message id was synced twice, and its
\* record was written under two identifiers.
C21_Witness ==
    /\ turn_number = 1
    /\ message_id = ""
    /\ Len(RecordWrites(memory_log)) = 2
    /\ RecordWrites(memory_log)[1].id = "character-profile-uuid-1"
    /\ RecordWrites(memory_log)[2].id = "character-profile-uuid-2"

\* What holds: a turn that has a message id keeps its identifier, and no two
\* turns share one.
C21_MessageIdKeysRecord ==
    [][RecordWrittenAgain
          => /\ (turn_number' = turn_number /\ message_id # "")
                   => LastRecordId(memory_log') = LastRecordId(memory_log)
             /\ turn_number' # turn_number
                   => LastRecordId(memory_log') \notin RecordIds(memory_log)]_vars


\* ------------------------------------------------ claims: the memory block
\* The records the retrievals brought, the semantic namespace first; a
\* retrieval that failed brought none.
Retrieved(retrievals) ==
    (IF retrievals.semantic.kind = "str" THEN retrievals.semantic.s ELSE <<>>)
        \o (IF retrievals.character.kind = "str" THEN retrievals.character.s ELSE <<>>)

\* The records to be listed: each one trimmed, the blank ones and the ones
\* that appeared before (after trimming) left out, in the order of their
\* first appearance.
FirstOccurrences(records) ==
    LET kept(i) == /\ Strip(records[i]) # <<>>
                   /\ \A j \in 1..(i - 1) : Strip(records[j]) # Strip(records[i])
        indices == SelectSeq([i \in DOMAIN records |-> i], kept)
    IN [k \in DOMAIN indices |-> Strip(records[indices[k]])]

\* The lines of a text.
RECURSIVE Lines(_)
Lines(text) ==
    IF \A i \in DOMAIN text : text[i] # NL THEN <<text>>
    ELSE LET first == CHOOSE i \in DOMAIN text :
                         text[i] = NL /\ \A j \in 1..(i - 1) : text[j] # NL
         IN <<SubSeq(text, 1, first - 1)>>
                \o Lines(SubSeq(text, first + 1, Len(text)))

\* The records a memory block lists: its lines between the first and the
\* last, without their dash.
ListedRecords(block) ==
    LET inner == SubSeq(Lines(block), 2, Len(Lines(block)) - 1)
    IN [i \in DOMAIN inner |-> Tail(inner[i])]

\* C22: the AGENTCORE MEMORY block lists every retrieved record at most
\* once: records are compared after trimming, blank records are dropped,
\* the first occurrence is kept and the order of first occurrences
\* (semantic results before character results) is preserved; a failed
\* retrieval of one namespace does not discard the records of the other;
\* and when no record remains no block is produced.  (The Controller
\* retrieves nothing outside the narrative mode.)
C22_MemoryBlockListsEachRecordOnce ==
    pc = "memory_retrieved"
        => LET expected ==
                   IF trace = <<"controller">> /\ personality_mode # "game_master"
                   THEN <<>>
                   ELSE FirstOccurrences(Retrieved(memory_records))
           IN IF expected = <<>> THEN context = <<>>
              ELSE /\ Lines(context)[1] = <<W("=== AGENTCORE MEMORY ===")>>
                   /\ \A i \in DOMAIN expected : Lines(context)[i + 1][1] = W("- ")
                   /\ ListedRecords(context) = expected
                   /\ \A i, j \in DOMAIN ListedRecords(context) :
                         i # j => ListedRecords(context)[i] # ListedRecords(context)[j]

\* Records repeated inside a namespace and across the two, one of them with
\* a trailing space: the block lists three records, in the order of their
\* first appearance.
C22_Witness ==
    /\ pc = "memory_retrieved"
    /\ personality_mode = "game_master"
    /\ Len(Retrieved(memory_records)) = 5
    /\ ListedRecords(context)
           = <<ContextRecordB, ContextRecordA, Words(<<"Mira", "owns", "a", "sword">>)>>

\* The semantic retrieval failed and the character record is listed.
C22_OtherNamespaceKept ==
    /\ pc = "memory_retrieved"
    /\ memory_records.semantic.kind = "ClientError"
    /\ ListedRecords(context) = <<ContextRecordB>>


\* ------------------------------------------- claims: event-stream responses
\* invoke was reached with a session id and the backend answered with a
\* body that reads and decodes as text.
InvokeDecodedBody ==
    /\ pc \in {"invoked", "invoke_raised", "generated", "generate_raised"}
    /\ invoke_result # NotInvoked
    /\ session_id # ""
    /\ runtime_response.kind = "response"
    /\ runtime_response.body = "stream"

EventStreamCase ==
    /\ InvokeDecodedBody
    /\ runtime_response.contentType = "text/event-stream"

\* The payloads of the lines of a stream that start with "data: ", in order.
DataPayloads(text) ==
    LET carrying == SelectSeq(Lines(text), LAMBDA l : l # <<>> /\ l[1] = DATA)
    IN [i \in DOMAIN carrying |-> Tail(carrying[i])]

RECURSIVE Concatenation(_)
Concatenation(texts) ==
    IF texts = <<>> THEN <<>> ELSE Head(texts) \o Concatenation(Tail(texts))

\* What decoding makes of a reassembled body: the empty mapping for a blank
\* body, the JSON value of a body that is JSON, the trimmed body under
\* response otherwise.
DecodedBody(text) ==
    IF Strip(text) = <<>> THEN PyDict(EmptyMap)
    ELSE IF Len(Strip(text)) = 1 /\ IsLit(Strip(text)[1]) THEN Strip(text)[1].doc
    ELSE PyDict([response |-> Strip(text)])

\* C23 as stated: for the event-stream content type the body that is decoded
\* is the concatenation, in order, of the payloads of the lines starting with
\* "data: ", every other line of the stream being discarded.
C23_EventStreamKeepsOnlyDataLines ==
    EventStreamCase
        => invoke_result = DecodedBody(Concatenation(DataPayloads(runtime_response.text)))

\* C23 as the code has it: when at least one line of the stream starts with
\* "data: " the decoded body is the concatenation of the payloads of those
\* lines, in order, and every other line is discarded; when no line does,
\* the whole text is the body.
C23_EventStreamDataLinesOrWholeText ==
    EventStreamCase
        => invoke_result =
              DecodedBody(IF DataPayloads(runtime_response.text) # <<>>
                          THEN Concatenation(DataPayloads(runtime_response.text))
                          ELSE runtime_response.text)

\* A stream of two data lines among an event line, an id line and a comment
\* line: the body is the two payloads, one after the other.
C23_Witness ==
    /\ pc = "invoked"
    /\ EventStreamCase
    /\ Len(DataPayloads(runtime_response.text)) = 2
    /\ Len(Lines(runtime_response.text)) > 4
    /\ invoke_result = PyDict([response |-> <<W("alpha"), W("beta")>>])

\* A stream without a data line: its only line, a comment, comes back as the
\* body.
C23_WholeTextWithoutDataLine ==
    /\ pc = "invoked"
    /\ EventStreamCase
    /\ DataPayloads(runtime_response.text) = <<>>
    /\ invoke_result = PyDict([response |-> <<W(": keep-alive")>>])


\* ---------------------------------------------- claims: bodies that are no JSON
\* invoke was called on its own with a session id and the backend answered.
InvokeAnswered ==
    /\ pc \in {"invoked", "invoke_raised"}
    /\ session_id # ""
    /\ runtime_response.kind = "response"

\* The reassembled body of an answer whose body reads and decodes as text.
ReassembledBody ==
    IF /\ runtime_response.contentType = "text/event-stream"
       /\ DataPayloads(runtime_response.text) # <<>>
    THEN Concatenation(DataPayloads(runtime_response.text))
    ELSE runtime_response.text

IsJsonText(text) == Len(Strip(text)) = 1 /\ IsLit(Strip(text)[1])

\* C24: when the reassembled body is not empty and is no valid JSON, invoke
\* does not fail: it returns the mapping that holds the body text under
\* response; an absent or blank body yields the empty mapping.
C24_NonJsonBodyIsWrapped ==
    InvokeAnswered =>
        /\ runtime_response.body = "None"
              => pc = "invoked" /\ invoke_result = PyDict(EmptyMap)
        /\ (runtime_response.body = "stream" /\ Strip(ReassembledBody) = <<>>)
              => pc = "invoked" /\ invoke_result = PyDict(EmptyMap)
        /\ (/\ runtime_response.body = "stream"
            /\ Strip(ReassembledBody) # <<>>
            /\ ~IsJsonText(ReassembledBody))
              => /\ pc = "invoked"
                 /\ invoke_result = PyDict([response |-> Strip(ReassembledBody)])

\* A body of prose under the JSON content type comes back under response.
C24_Witness ==
    /\ pc = "invoked"
    /\ InvokeAnswered
    /\ runtime_response.contentType = "application/json"
    /\ runtime_response.body = "stream"
    /\ runtime_response.text = Words(<<"I", "feel", "strange">>)
    /\ invoke_result = PyDict([response |-> Words(<<"I", "feel", "strange">>)])

\* A body of white space only yields the empty mapping.
C24_BlankBodyIsEmptyMapping ==
    /\ pc = "invoked"
    /\ InvokeAnswered
    /\ runtime_response.body = "stream"
    /\ runtime_response.text = <<SP, NL>>
    /\ invoke_result = PyDict(EmptyMap)


\* ------------------------------------------------- claims: the stream handler
\* The records of the event that are to be processed, in stream order.
ProcessableRecords ==
    SelectSeq(event.Records,
              LAMBDA r : /\ r.eventName \in {"INSERT", "MODIFY"}
                         /\ r.content # ""
                         /\ r.conversationId # "")

MainOver == pc \in {"main_returned", "main_raised"}

\* C25: the stream handler runs process_input exactly once for each record
\* whose eventName is INSERT or MODIFY and whose NewImage carries content
\* and conversationId, in stream order, with the record's message id and
\* owner; every other record is skipped; and it returns statusCode 200 with
\* exactly one response entry per processed record, in the same order.
C25_OneResponsePerProcessableRecord ==
    MainOver =>
        /\ processed = [i \in DOMAIN ProcessableRecords |->
                           ProcessInputArguments(ProcessableRecords[i])]
        /\ pc = "main_returned"
        /\ http_status = 200
        /\ Len(http_body.s) = Len(ProcessableRecords)
        /\ \A i \in DOMAIN ProcessableRecords :
              http_body.s[i].user_input = ProcessableRecords[i].content

\* The failing case: an event of two records to be processed; the first
\* process_input call raises TypeError, the handler raises with it, the
\* second record is never processed and nothing is returned.
C25_Witness ==
    /\ pc = "main_raised"
    /\ Len(ProcessableRecords) = 2
    /\ Len(processed) = 1
    /\ final_response = Exc("TypeError")
    /\ http_status = 0

\* What holds of the handler: the calls it makes are those of the records
\* to be processed, in stream order and each with its record's message id
\* and owner, up to the first call that raises; and an event without such a
\* record is answered with statusCode 200 and no response entry.
C25_CallsFollowStreamOrder ==
    MainOver =>
        /\ Len(processed) <= Len(ProcessableRecords)
        /\ \A i \in DOMAIN processed :
              processed[i] = ProcessInputArguments(ProcessableRecords[i])
        /\ ProcessableRecords = <<>>
              => pc = "main_returned" /\ http_status = 200 /\ http_body.s = <<>>
        /\ pc = "main_returned" => Len(http_body.s) = Len(processed)


\* ------------------------------------------------- claims: a save that fails
\* The save_response call of the turn raises: at the call, or because the
\* mutation is not answered with status 200.
SaveFails == Raised(SaveResponse({"response", "message_id", "owner"}, http_status))

\* C26: if save_response fails during a turn, process_input raises to its
\* caller and the turn leaves no partial record: conversation_history is
\* unchanged and the memory sync is not attempted.
C26_FailedSaveLeavesNoRecord ==
    [][(pc = "review_response" /\ SaveFails)
          => /\ pc' = "turn_raised"
             /\ Raised(final_response')
             /\ conversation_history' = conversation_history
             /\ synced_response' = PyNone
             /\ memory_log' = <<>>]_vars

\* A narrative turn with a character sheet and a memory store that accepts
\* every write: the save raised, the history is as it was before the turn
\* and nothing was written to the store.
C26_Witness ==
    /\ pc = "turn_raised"
    /\ SaveFails
    /\ saved_response.kind = "dict"
    /\ personality_mode = "game_master"
    /\ HasCharacter(character_data)
    /\ memory_store = Store(TRUE, {"USER", "ASSISTANT", "record"})
    /\ conversation_history # <<>>
    /\ synced_response = PyNone
    /\ memory_log = <<>>

\* ---------------------------------------------- claims: one reply per turn
\* The reply of the turn after postprocessing.
PostprocessedReply ==
    ControllerPostprocess(character_data, user_input, enhanced_response)

C27_NoStageChangesTheReply ==
    [][pc = "review_response"
          => /\ saved_response' = PostprocessedReply
             /\ synced_response' \in {PyNone, PostprocessedReply}
             /\ \/ conversation_history' = conversation_history
                \/ conversation_history'
                      = Append(conversation_history,
                               [user_input |-> user_input,
                                response |-> PostprocessedReply])
             /\ ~Raised(final_response') => final_response' = PostprocessedReply]_vars


\* --------------------------------------- claims: the order of a narrative sync
\* A narrative sync has returned on a store that is configured, so that
\* every call made to the client is a call made to the store.
NarrativeSynced ==
    /\ pc = "synced"
    /\ personality_mode = "game_master"
    /\ memory_store.memory_id

EventAttempted(role) ==
    \E i \in DOMAIN memory_log :
        memory_log[i].op = "create_event" /\ memory_log[i].role = role

EventFailed(role) ==
    \E i \in DOMAIN memory_log :
        /\ memory_log[i].op = "create_event"
        /\ memory_log[i].role = role
        /\ ~memory_log[i].ok

RecordAttempted ==
    \E i \in DOMAIN memory_log : memory_log[i].op = "batch_create_memory_records"

\* The writes of the log are in the order USER event, ASSISTANT event,
\* record, each at most once.
SyncWriteOrder ==
    LET rank(write) == CASE write.op = "batch_create_memory_records" -> 3
                         [] write.role = "USER" -> 1
                         [] OTHER -> 2
    IN \A i, j \in DOMAIN memory_log :
          i < j => rank(memory_log[i]) < rank(memory_log[j])

\* The events of a narrative sync: USER then ASSISTANT, the ASSISTANT event
\* exactly when there is response text and the USER event did not fail.
SyncEventsInOrder ==
    /\ SyncWriteOrder
    /\ EventAttempted("USER") <=> user_input # <<>>
    /\ EventAttempted("ASSISTANT")
          <=> (SyncResponseText(final_response) # <<>> /\ ~EventFailed("USER"))

\* C28: in a narrative sync the short-term events are written in the order
\* USER then ASSISTANT, the ASSISTANT event only when the response text is
\* not empty; if writing the USER event fails the ASSISTANT event is not
\* attempted, but the save of the character record is still attempted
\* afterwards whenever a character sheet is present, and is never attempted
\* when none is present.
C28_RecordSaveFollowsEvents ==
    NarrativeSynced
        => /\ SyncEventsInOrder
           /\ RecordAttempted <=> HasCharacter(character_data)

\* The failing case: sync_memory of the mode handler with a sheet whose
\* inventory holds an infinite quantity; the USER event failed, and the
\* save of the record was not attempted although a sheet is present.
C28_Witness ==
    /\ NarrativeSynced
    /\ trace = <<"sync_memory">>
    /\ HasCharacter(character_data)
    /\ Raised(HandlerFormatCharacterMemory(character_data))
    /\ EventFailed("USER")
    /\ ~EventAttempted("ASSISTANT")
    /\ ~RecordAttempted

\* What holds of both copies: the events are in order, no record is saved
\* without a sheet, and with a sheet the save is attempted whether or not an
\* event failed: always by the Controller's copy, and by the mode handler's
\* whenever the text of the sheet can be built.
C28_RecordSaveUnlessFormattingRaises ==
    NarrativeSynced
        => /\ SyncEventsInOrder
           /\ RecordAttempted => HasCharacter(character_data)
           /\ (/\ HasCharacter(character_data)
               /\ \/ trace = <<"sync_agentcore_memory">>
                  \/ ~Raised(HandlerFormatCharacterMemory(character_data)))
                 => RecordAttempted

\* The USER event failed, the ASSISTANT event was not attempted and the
\* record was saved.
C28_RecordSavedAfterFailedEvent ==
    /\ NarrativeSynced
    /\ EventFailed("USER")
    /\ ~EventAttempted("ASSISTANT")
    /\ SyncResponseText(final_response) # <<>>
    /\ \E i \in DOMAIN memory_log :
          memory_log[i].op = "batch_create_memory_records" /\ memory_log[i].ok


\* --------------------------------------------- claims: what is enhanced
\* An error indicator occurs, whatever the case of its letters, in the name
\* or in the value of a field of the reply.
IndicatorInReply(reply) == \E text \in ReprTexts(reply) : HasIndicator(text)

\* The reply returned differs from the reply handed in only by response and
\* self_reflection.
OnlyToneFieldsDiffer(before, after) ==
    /\ after.kind = "dict"
    /\ DOMAIN after.d = DOMAIN before.d
    /\ \A k \in DOMAIN before.d \ {"response", "self_reflection"} :
          after.d[k] = before.d[k]

\* C29: enhance_response changes a reply if and only if the reply has a
\* response field and no error indicator occurs, case-insensitively,
\* anywhere in the reply; when a reply is enhanced only its response and
\* self_reflection fields differ from the reply handed in, which is itself
\* left unmodified.
C29_EnhancedIffGenuine ==
    [][pc = "enhance_response"
          => /\ pc' = "depth_done"
             /\ parsed_response' = parsed_response
             /\ (enhanced_response' # parsed_response)
                   <=> (/\ "response" \in DOMAIN parsed_response.d
                        /\ ~IndicatorInReply(parsed_response.d))
             /\ enhanced_response' # parsed_response
                   => OnlyToneFieldsDiffer(parsed_response, enhanced_response')]_vars

\* The failing case: a reply whose self_reflection is a list was enhanced,
\* and the list of the reply handed in has grown by the note.
C29_Witness ==
    /\ pc = "depth_done"
    /\ trace = <<"enhance_response">>
    /\ {"response", "self_reflection"} \subseteq DOMAIN parsed_response.d
    /\ ValueType(parsed_response.d["self_reflection"]) = "list"
    /\ Len(parsed_response.d["self_reflection"][1].doc.s) > 1
    /\ parsed_response.d["self_reflection"] = enhanced_response.d["self_reflection"]
    /\ parsed_response.d["response"] # enhanced_response.d["response"]

\* The response and the self_reflection of the reply, where present, are
\* strings.
ToneFieldsAreText(reply) ==
    \A k \in DOMAIN reply \cap {"response", "self_reflection"} :
        ValueType(reply[k]) = "str"

\* What holds: the claim, for every reply whose response and self_reflection
\* are strings.
C29_EnhancedIffGenuineText ==
    [][(pc = "enhance_response" /\ ToneFieldsAreText(parsed_response.d))
          => /\ pc' = "depth_done"
             /\ parsed_response' = parsed_response
             /\ (enhanced_response' # parsed_response)
                   <=> (/\ "response" \in DOMAIN parsed_response.d
                        /\ ~IndicatorInReply(parsed_response.d))
             /\ enhanced_response' # parsed_response
                   => /\ OnlyToneFieldsDiffer(parsed_response, enhanced_response')
                      /\ enhanced_response'.d["response"]
                            # parsed_response.d["response"]]_vars

\* A genuine reply with the word terror in its response came back as it was.
C29_GenuineReplyWithIndicatorKept ==
    /\ pc = "depth_done"
    /\ parsed_response = PyDict(TerrorReply)
    /\ enhanced_response = parsed_response

\* A reply whose response is None made enhance_response raise.
C29_RaisedOnResponseThatIsNoString ==
    /\ pc = "depth_raised"
    /\ "response" \in DOMAIN parsed_response.d
    /\ ValueType(parsed_response.d["response"]) = "None"
    /\ enhanced_response = Exc("AttributeError")


\* ------------------------------------------ claims: the runtime's fallback
\* process was called with a well-formed event and the model call returned
\* the text of raw_response.
ModelReturnedText ==
    /\ pc = "processed"
    /\ ~EventRaises(event)
    /\ raw_response.kind = "str"

\* The model text is a JSON object that holds the five required fields.
IsFiveFieldObject(text) ==
    /\ Len(Strip(text)) = 1
    /\ IsLit(Strip(text)[1])
    /\ Strip(text)[1].doc.kind = "dict"
    /\ required_keys \subseteq DOMAIN Strip(text)[1].doc.d

\* The text is no JSON at all, or a JSON object.
NoJsonOrObject(text) ==
    \/ ~(Len(Strip(text)) = 1 /\ IsLit(Strip(text)[1]))
    \/ Strip(text)[1].doc.kind = "dict"

\* The reply is the fallback reply around the text: the text (or the fixed
\* message when it is empty) under response, placeholders elsewhere.
IsFallbackAround(reply, text) ==
    /\ reply.kind = "dict"
    /\ required_keys \subseteq DOMAIN reply.d
    /\ reply.d["response"] =
          (IF text # <<>> THEN text
           ELSE <<W("I processed your message but encountered difficulty generating a structured response.")>>)
    /\ \A k \in required_keys \ {"response"} :
          reply.d[k] = fallback_response(<<>>, event.context, event.persona)[k]
    /\ reply # PyDict(ProcessErrorReply)

\* C30: when the model returns text that is not a JSON object holding the
\* five required fields, process returns a fallback reply whose response is
\* the raw text (a fixed message when the text is empty) and whose other
\* four fields are placeholders, not the sentinel error reply.
C30_FallbackWrapsRawText ==
    (ModelReturnedText /\ ~IsFiveFieldObject(raw_response.s))
        => IsFallbackAround(final_response, raw_response.s)

\* The failing case: the model text is the JSON number, the event is well
\* formed, and the reply is the sentinel error reply.
C30_Witness ==
    /\ ModelReturnedText
    /\ raw_response = PyStr(<<Lit(PyNum)>>)
    /\ final_response = PyDict(ProcessErrorReply)

\* What holds: a text that is no JSON, and a JSON object that lacks a
\* required field, are wrapped in the fallback reply; the sentinel error
\* reply is returned only for a malformed event, a model call that raised,
\* or a text that is a JSON value other than an object.
C30_FallbackForTextAndIncompleteObject ==
    /\ (/\ ModelReturnedText
        /\ ~IsFiveFieldObject(raw_response.s)
        /\ NoJsonOrObject(raw_response.s))
          => IsFallbackAround(final_response, raw_response.s)
    /\ (pc = "processed" /\ final_response = PyDict(ProcessErrorReply))
          => \/ EventRaises(event)
             \/ raw_response.kind # "str"
             \/ ~NoJsonOrObject(raw_response.s)

\* A fenced JSON object is no JSON for the runtime: it comes back under
\* response, fences included.
C30_FencedObjectIsWrapped ==
    /\ ModelReturnedText
    /\ raw_response.s # <<>>
    /\ raw_response.s[1] = FENCE
    /\ final_response.kind = "dict"
    /\ final_response.d["response"] = raw_response.s

====
